---------------------------- MODULE Spec2Model ----------------------------
(***************************************************************************)
(* A model of the structural core of the prosemirror-debug repository:     *)
(* the content-expression automaton, the persistent tree (Node, Fragment), *)
(* position resolution, the slice/replace algorithm, the step and mapping  *)
(* system and the Transform that records steps.                            *)
(*                                                                         *)
(* Values.  A node is a record [type, attrs, content, text, marks]; a      *)
(* fragment is the sequence of its child nodes; a text is a sequence of    *)
(* one-character strings.  Numbers that the source uses as array indices   *)
(* (automaton states, child indices, positions) keep the source's 0-based  *)
(* values; only the access to a TLA+ sequence adds one.                    *)
(***************************************************************************)
EXTENDS Integers, Sequences, FiniteSets, TLC

\* ------------------------------------------------------------ the state
\* Five runs are specified, each over its own variables: compiling and
\* running a content automaton (cm...), constructing a fragment (frag...),
\* one call of replace (r...), one step with its inverse and its position
\* map (s...), and a Transform (tr...: its doc, steps, docs and mapping,
\* and the result of the last call).  A run
\* leaves the variables of the other runs at Idle.  schema holds what the
\* Schema constructor computes once, the content automaton of every node
\* type; the automaton run compiles its own expressions and leaves it Idle.

VARIABLES schema,
          cmTokens, cmExpr, cmErr, cmDfa, cmState, cmWord, cmFill,
          frag, fragOp,
          rDoc, rFrom, rTo, rSlice, rResult,
          sDoc, sStep, sApplied, sInverse, sRestored, sMapped,
          trDoc, trSteps, trDocs, trMapping, trResult,
          resolveCache, rcResult,
          wrapCache, found, qResult,
          mDoc, mStep1, mStep2, mFirst, mSecond, mMerged, mApplied,
          markSet,
          slc,
          opDoc, opCall, opTr, opResult,
          jDoc, jPos, jCall, jTr, jResult,
          mpMapping, mpCall,
          apPlugins, apPc, apTrs, apNewState, apSeen, apI, apHaveNew, apPassed, apResult

cmVars == <<cmTokens, cmExpr, cmErr, cmDfa, cmState, cmWord, cmFill>>

fragVars == <<frag, fragOp>>

replVars == <<rDoc, rFrom, rTo, rSlice, rResult>>

stepVars == <<sDoc, sStep, sApplied, sInverse, sRestored, sMapped>>

trVars == <<trDoc, trSteps, trDocs, trMapping, trResult>>

cacheVars == <<resolveCache, rcResult>>

queryVars == <<wrapCache, found, qResult>>

mergeVars == <<mDoc, mStep1, mStep2, mFirst, mSecond, mMerged, mApplied>>

markVars == <<markSet>>

sliceVars == <<slc>>

opVars == <<opDoc, opCall, opTr, opResult>>

joinVars == <<jDoc, jPos, jCall, jTr, jResult>>

mapVars == <<mpMapping, mpCall>>

applyVars == <<apPlugins, apPc, apTrs, apNewState, apSeen, apI, apHaveNew, apPassed, apResult>>

laterVars == <<cacheVars, queryVars, mergeVars, markVars, sliceVars, opVars, joinVars, mapVars, applyVars>>

vars == <<schema, cmVars, fragVars, replVars, stepVars, trVars, laterVars>>

Idle == <<>>

IdleCM ==
  /\ cmTokens = Idle /\ cmExpr = Idle /\ cmErr = Idle /\ cmDfa = Idle
  /\ cmState = Idle /\ cmWord = Idle /\ cmFill = Idle

IdleFrag == frag = Idle /\ fragOp = Idle

IdleRepl == rDoc = Idle /\ rFrom = Idle /\ rTo = Idle /\ rSlice = Idle /\ rResult = Idle

IdleStep ==
  /\ sDoc = Idle /\ sStep = Idle /\ sApplied = Idle /\ sInverse = Idle
  /\ sRestored = Idle /\ sMapped = Idle

IdleTr ==
  /\ trDoc = Idle /\ trSteps = Idle /\ trDocs = Idle /\ trMapping = Idle
  /\ trResult = Idle

IdleCache == resolveCache = Idle /\ rcResult = Idle

IdleQuery == wrapCache = Idle /\ found = Idle /\ qResult = Idle

IdleMerge ==
  /\ mDoc = Idle /\ mStep1 = Idle /\ mStep2 = Idle /\ mFirst = Idle /\ mSecond = Idle
  /\ mMerged = Idle /\ mApplied = Idle

IdleMark == markSet = Idle

IdleSlice == slc = Idle

IdleOp == opDoc = Idle /\ opCall = Idle /\ opTr = Idle /\ opResult = Idle

IdleJoin == jDoc = Idle /\ jPos = Idle /\ jCall = Idle /\ jTr = Idle /\ jResult = Idle

IdleMap == mpMapping = Idle /\ mpCall = Idle

IdleApply == apPlugins = Idle /\ apPc = Idle /\ apTrs = Idle /\ apNewState = Idle /\ apSeen = Idle /\ apI = Idle /\ apHaveNew = Idle /\ apPassed = Idle /\ apResult = Idle

IdleLater == IdleCache /\ IdleQuery /\ IdleMerge /\ IdleMark /\ IdleSlice /\ IdleOp /\ IdleJoin /\ IdleMap /\ IdleApply

coreVars == <<cmVars, fragVars, replVars, stepVars, trVars>>

IdleCore == IdleCM /\ IdleFrag /\ IdleRepl /\ IdleStep /\ IdleTr

\* ------------------------------------------------------------ utilities

Range(s) == {s[i] : i \in DOMAIN s}

Min(a, b) == IF a < b THEN a ELSE b

Max(a, b) == IF a > b THEN a ELSE b

IndexOf(s, x) == IF \E i \in DOMAIN s : s[i] = x
                 THEN CHOOSE i \in DOMAIN s : s[i] = x /\ \A j \in 1..(i-1) : s[j] # x
                 ELSE 0

\* Array.prototype.sort with cmp(a, b) = b - a: descending order.
RECURSIVE SortDesc(_)
SortDesc(s) ==
  IF s = <<>> THEN <<>>
  ELSE LET m == CHOOSE x \in Range(s) : \A y \in Range(s) : y <= x
           i == IndexOf(s, m)
       IN <<m>> \o SortDesc(SubSeq(s, 1, i-1) \o SubSeq(s, i+1, Len(s)))

\* ------------------------------------------------- content expressions
\* A content expression is modelled after tokenisation: a sequence of
\* tokens.  A node-type table is a sequence (declaration order matters for
\* group expansion) of records [name, groups, inline, required, content].

NoTok == "<end>"

NoErr == "none"

NoTerm == "<null>"

Punct == {"(", ")", "|", "+", "*", "?", "{", "}", ","}

Digits == <<"0", "1", "2", "3">>

IsNum(tok) == \E i \in DOMAIN Digits : Digits[i] = tok

NumOf(tok) == IndexOf(Digits, tok) - 1

TokenStream(tokens, nodeTypes) ==
  [tokens |-> tokens, nodeTypes |-> nodeTypes, pos |-> 1, inline |-> "null", err |-> NoErr]

StreamNext(s) == IF s.pos <= Len(s.tokens) THEN s.tokens[s.pos] ELSE NoTok

StreamSkip(s) == [s EXCEPT !.pos = @ + 1]

StreamErr(s, msg) == [s EXCEPT !.err = msg]

TypeNamed(nodeTypes, name) ==
  LET i == CHOOSE i \in DOMAIN nodeTypes : nodeTypes[i].name = name IN nodeTypes[i]

HasType(nodeTypes, name) == \E i \in DOMAIN nodeTypes : nodeTypes[i].name = name

NameExpr(v) == [type |-> "name", exprs |-> <<>>, min |-> 0, max |-> 0, value |-> v]

OpExpr(t, es) == [type |-> t, exprs |-> es, min |-> 0, max |-> 0, value |-> ""]

RangeExpr(mn, mx, e) == [type |-> "range", exprs |-> <<e>>, min |-> mn, max |-> mx, value |-> ""]

\* resolveName: the type of that name, else the members of the group of
\* that name in declaration order.
resolveName(nodeTypes, name) ==
  IF HasType(nodeTypes, name) THEN <<name>>
  ELSE LET F[i \in 0..Len(nodeTypes)] ==
             IF i = 0 THEN <<>>
             ELSE IF name \in nodeTypes[i].groups THEN Append(F[i-1], nodeTypes[i].name)
                  ELSE F[i-1]
       IN F[Len(nodeTypes)]

\* The inline/block consistency check made while mapping the resolved names.
RECURSIVE NameInline(_, _, _)
NameInline(s, names, i) ==
  IF i > Len(names) \/ s.err # NoErr THEN s
  ELSE LET inl == IF TypeNamed(s.nodeTypes, names[i]).inline THEN "true" ELSE "false"
       IN IF s.inline = "null" THEN NameInline([s EXCEPT !.inline = inl], names, i + 1)
          ELSE IF s.inline # inl THEN StreamErr(s, "Mixing inline and block content")
          ELSE NameInline(s, names, i + 1)

parseNum(s) ==
  IF ~IsNum(StreamNext(s)) THEN [num |-> 0, stream |-> StreamErr(s, "Expected number")]
  ELSE [num |-> NumOf(StreamNext(s)), stream |-> StreamSkip(s)]

parseExprRange(s, expr) ==
  LET a == parseNum(s)
      r == IF a.stream.err # NoErr THEN [max |-> 0, stream |-> a.stream]
           ELSE IF StreamNext(a.stream) = ","
           THEN LET s1 == StreamSkip(a.stream)
                IN IF StreamNext(s1) # "}"
                   THEN LET b == parseNum(s1) IN [max |-> b.num, stream |-> b.stream]
                   ELSE [max |-> -1, stream |-> s1]
           ELSE [max |-> a.num, stream |-> a.stream]
  IN IF r.stream.err # NoErr THEN [expr |-> expr, stream |-> r.stream]
     ELSE IF StreamNext(r.stream) # "}"
     THEN [expr |-> expr, stream |-> StreamErr(r.stream, "Unclosed braced range")]
     ELSE [expr |-> RangeExpr(a.num, r.max, expr), stream |-> StreamSkip(r.stream)]

RECURSIVE parseExpr(_), parseExprAlts(_, _), parseExprSeq(_), parseExprItems(_, _)
RECURSIVE parseExprSubscript(_), parseExprSuffix(_, _), parseExprAtom(_)

\* Each caller hands the result of the call it makes to a local operator,
\* which plays the part of the statements after the call.

parseExprAtom(s) ==
  LET Paren(r) ==
        IF r.stream.err # NoErr THEN r
        ELSE IF StreamNext(r.stream) # ")"
        THEN [expr |-> r.expr, stream |-> StreamErr(r.stream, "Missing closing paren")]
        ELSE [expr |-> r.expr, stream |-> StreamSkip(r.stream)]
      Named(names, s1) ==
        IF names = <<>>
        THEN [expr |-> NameExpr(""), stream |-> StreamErr(s, "No node type or group found")]
        ELSE IF s1.err # NoErr THEN [expr |-> NameExpr(""), stream |-> s1]
        ELSE [expr |-> IF Len(names) = 1 THEN NameExpr(names[1])
                       ELSE OpExpr("choice", [i \in DOMAIN names |-> NameExpr(names[i])]),
              stream |-> StreamSkip(s1)]
      Name(names) == Named(names, NameInline(s, names, 1))
  IN IF StreamNext(s) = "(" THEN Paren(parseExpr(StreamSkip(s)))
     ELSE IF StreamNext(s) \notin Punct THEN Name(resolveName(s.nodeTypes, StreamNext(s)))
     ELSE [expr |-> NameExpr(""), stream |-> StreamErr(s, "Unexpected token")]

parseExprSuffix(s, expr) ==
  LET Ranged(r) == IF r.stream.err # NoErr THEN r ELSE parseExprSuffix(r.stream, r.expr)
      tok == StreamNext(s)
  IN IF tok \in {"+", "*", "?"}
     THEN parseExprSuffix(StreamSkip(s),
                          OpExpr(IF tok = "+" THEN "plus" ELSE IF tok = "*" THEN "star" ELSE "opt",
                                 <<expr>>))
     ELSE IF tok = "{" THEN Ranged(parseExprRange(StreamSkip(s), expr))
     ELSE [expr |-> expr, stream |-> s]

parseExprSubscript(s) ==
  LET Atom(a) == IF a.stream.err # NoErr THEN a ELSE parseExprSuffix(a.stream, a.expr)
  IN Atom(parseExprAtom(s))

parseExprItems(s, exprs) ==
  LET Item(r) ==
        IF r.stream.err # NoErr THEN [exprs |-> exprs, stream |-> r.stream]
        ELSE IF StreamNext(r.stream) \notin {NoTok, ")", "|"}
        THEN parseExprItems(r.stream, Append(exprs, r.expr))
        ELSE [exprs |-> Append(exprs, r.expr), stream |-> r.stream]
  IN Item(parseExprSubscript(s))

parseExprSeq(s) ==
  LET Items(r) ==
        IF r.stream.err # NoErr THEN [expr |-> NameExpr(""), stream |-> r.stream]
        ELSE [expr |-> IF Len(r.exprs) = 1 THEN r.exprs[1] ELSE OpExpr("seq", r.exprs),
              stream |-> r.stream]
  IN Items(parseExprItems(s, <<>>))

parseExprAlts(s, exprs) ==
  LET Alt(r) ==
        IF r.stream.err # NoErr THEN [exprs |-> exprs, stream |-> r.stream]
        ELSE IF StreamNext(r.stream) = "|"
        THEN parseExprAlts(StreamSkip(r.stream), Append(exprs, r.expr))
        ELSE [exprs |-> Append(exprs, r.expr), stream |-> r.stream]
  IN Alt(parseExprSeq(s))

parseExpr(s) ==
  LET Alts(r) ==
        IF r.stream.err # NoErr THEN [expr |-> NameExpr(""), stream |-> r.stream]
        ELSE [expr |-> IF Len(r.exprs) = 1 THEN r.exprs[1] ELSE OpExpr("choice", r.exprs),
              stream |-> r.stream]
  IN Alts(parseExprAlts(s, <<>>))

\* ------------------------------------------------------------------ NFA
\* The NFA is a sequence of states, each a sequence of edges [term, to].
\* State numbers are the source's (0-based); an edge that is not yet
\* connected has to = NoState.  An edge object is referred to by
\* <<state, index in that state's edge list>>.

NoState == -1

NfaNode(n) == Append(n, <<>>)

NfaEdge(n, from, to, term) == [n EXCEPT ![from + 1] = Append(@, [term |-> term, to |-> to])]

LastEdge(n, from) == <<from, Len(n[from + 1])>>

RECURSIVE connect(_, _, _)
connect(n, edges, to) ==
  IF edges = <<>> THEN n
  ELSE connect([n EXCEPT ![edges[1][1] + 1][edges[1][2]].to = to], Tail(edges), to)

RECURSIVE compile(_, _, _), compileChoice(_, _, _, _, _), compileSeq(_, _, _, _)
RECURSIVE compileRangeMin(_, _, _, _), compileRangeMax(_, _, _, _)

compileChoice(n, exprs, i, from, out) ==
  IF i > Len(exprs) THEN [nfa |-> n, out |-> out]
  ELSE LET r == compile(n, exprs[i], from)
       IN compileChoice(r.nfa, exprs, i + 1, from, out \o r.out)

compileSeq(n, exprs, i, from) ==
  LET next == compile(n, exprs[i], from)
  IN IF i = Len(exprs) THEN next
     ELSE LET n1 == NfaNode(next.nfa)
              nd == Len(next.nfa)
          IN compileSeq(connect(n1, next.out, nd), exprs, i + 1, nd)

\* for (i = 0; i < expr.min; i++): returns the NFA and the state reached.
compileRangeMin(n, expr, cur, i) ==
  IF i >= expr.min THEN [nfa |-> n, cur |-> cur]
  ELSE LET n1 == NfaNode(n)
           next == Len(n)
           r == compile(n1, expr.exprs[1], cur)
       IN compileRangeMin(connect(r.nfa, r.out, next), expr, next, i + 1)

\* for (i = expr.min; i < expr.max; i++)
compileRangeMax(n, expr, cur, i) ==
  IF i >= expr.max THEN [nfa |-> n, cur |-> cur]
  ELSE LET n1 == NfaNode(n)
           next == Len(n)
           n2 == NfaEdge(n1, cur, next, NoTerm)
           r == compile(n2, expr.exprs[1], cur)
       IN compileRangeMax(connect(r.nfa, r.out, next), expr, next, i + 1)

compile(n, expr, from) ==
  CASE expr.type = "choice" -> compileChoice(n, expr.exprs, 1, from, <<>>)
    [] expr.type = "seq" -> compileSeq(n, expr.exprs, 1, from)
    [] expr.type = "star" ->
         LET n1 == NfaNode(n)
             loop == Len(n)
             n2 == NfaEdge(n1, from, loop, NoTerm)
             r == compile(n2, expr.exprs[1], loop)
             n3 == NfaEdge(connect(r.nfa, r.out, loop), loop, NoState, NoTerm)
         IN [nfa |-> n3, out |-> <<LastEdge(n3, loop)>>]
    [] expr.type = "plus" ->
         LET n1 == NfaNode(n)
             loop == Len(n)
             r1 == compile(n1, expr.exprs[1], from)
             r2 == compile(connect(r1.nfa, r1.out, loop), expr.exprs[1], loop)
             n3 == NfaEdge(connect(r2.nfa, r2.out, loop), loop, NoState, NoTerm)
         IN [nfa |-> n3, out |-> <<LastEdge(n3, loop)>>]
    [] expr.type = "opt" ->
         LET n1 == NfaEdge(n, from, NoState, NoTerm)
             e == LastEdge(n1, from)
             r == compile(n1, expr.exprs[1], from)
         IN [nfa |-> r.nfa, out |-> <<e>> \o r.out]
    [] expr.type = "range" ->
         LET a == compileRangeMin(n, expr, from, 0)
             b == IF expr.max = -1
                  THEN LET r == compile(a.nfa, expr.exprs[1], a.cur)
                       IN [nfa |-> connect(r.nfa, r.out, a.cur), cur |-> a.cur]
                  ELSE compileRangeMax(a.nfa, expr, a.cur, expr.min)
             n3 == NfaEdge(b.nfa, b.cur, NoState, NoTerm)
         IN [nfa |-> n3, out |-> <<LastEdge(n3, b.cur)>>]
    [] OTHER ->
         LET n1 == NfaEdge(n, from, NoState, expr.value)
         IN [nfa |-> n1, out |-> <<LastEdge(n1, from)>>]

nfa(expr) ==
  LET r == compile(<<<<>>>>, expr, 0)
      n1 == NfaNode(r.nfa)
  IN connect(n1, r.out, Len(r.nfa))

\* nullFrom: the states reachable over null edges, skipping states whose
\* only edge is a null edge; sorted in descending order.
RECURSIVE scan(_, _, _), scanEdges(_, _, _, _)

scan(n, node, result) ==
  LET edges == n[node + 1]
  IN IF Len(edges) = 1 /\ edges[1].term = NoTerm THEN scan(n, edges[1].to, result)
     ELSE scanEdges(n, edges, 1, Append(result, node))

scanEdges(n, edges, i, result) ==
  IF i > Len(edges) THEN result
  ELSE IF edges[i].term = NoTerm /\ IndexOf(result, edges[i].to) = 0
       THEN scanEdges(n, edges, i + 1, scan(n, edges[i].to, result))
       ELSE scanEdges(n, edges, i + 1, result)

nullFrom(n, node) == SortDesc(scan(n, node, <<>>))

\* ------------------------------------------------------------------ DFA
\* The DFA is the sequence of ContentMatch objects in creation order; a
\* ContentMatch is referred to by its 0-based place in it.  Each holds the
\* label it was registered under (`labeled`), validEnd and its edges
\* [type, next].

\* The body of the two forEach loops of explore: the out list of
\* <<term, set>> pairs.
RECURSIVE exploreStates(_, _, _, _), exploreEdges(_, _, _, _), exploreAdd(_, _, _, _, _)

exploreAdd(out, term, slot, nodes, i) ==
  IF i > Len(nodes) THEN out
  ELSE LET s == IF slot = 0 THEN Len(out) + 1 ELSE slot
           out1 == IF slot = 0 THEN Append(out, [term |-> term, set |-> <<>>]) ELSE out
           out2 == IF IndexOf(out1[s].set, nodes[i]) = 0
                   THEN [out1 EXCEPT ![s].set = Append(@, nodes[i])]
                   ELSE out1
       IN exploreAdd(out2, term, s, nodes, i + 1)

exploreEdges(n, edges, j, out) ==
  IF j > Len(edges) THEN out
  ELSE IF edges[j].term = NoTerm THEN exploreEdges(n, edges, j + 1, out)
  ELSE LET term == edges[j].term
           \* the loop keeps the last entry of that term
           slot == IF \E k \in DOMAIN out : out[k].term = term
                   THEN CHOOSE k \in DOMAIN out :
                          out[k].term = term /\ \A m \in (k+1)..Len(out) : out[m].term # term
                   ELSE 0
       IN exploreEdges(n, edges, j + 1, exploreAdd(out, term, slot, nullFrom(n, edges[j].to), 1))

exploreStates(n, states, i, out) ==
  IF i > Len(states) THEN out
  ELSE exploreStates(n, states, i + 1, exploreEdges(n, n[states[i] + 1], 1, out))

Labeled(d, key) == IF \E k \in DOMAIN d : d[k].key = key
                   THEN (CHOOSE k \in DOMAIN d : d[k].key = key) - 1
                   ELSE NoState

RECURSIVE explore(_, _, _), exploreNext(_, _, _, _, _)

explore(n, d, states) ==
  LET out == exploreStates(n, states, 1, <<>>)
      state == Len(d)
      d1 == Append(d, [key |-> states,
                       validEnd |-> IndexOf(states, Len(n) - 1) > 0,
                       next |-> <<>>])
  IN [dfa |-> exploreNext(n, d1, state, out, 1), state |-> state]

exploreNext(n, d, state, out, i) ==
  IF i > Len(out) THEN d
  ELSE LET states == SortDesc(out[i].set)
           known == Labeled(d, states)
           r == IF known # NoState THEN [dfa |-> d, state |-> known]
                ELSE explore(n, d, states)
           d1 == [r.dfa EXCEPT ![state + 1].next =
                    Append(@, [type |-> out[i].term, next |-> r.state])]
       IN exploreNext(n, d1, state, out, i + 1)

dfa(n) == explore(n, <<>>, nullFrom(n, 0)).dfa

\* ContentMatch.empty: one accepting state without edges.
EmptyMatch == <<[key |-> <<>>, validEnd |-> TRUE, next |-> <<>>]>>

\* type.isText || type.hasRequiredAttrs(): not generatable.
NonGeneratable(nodeTypes, name) ==
  name = "text" \/ TypeNamed(nodeTypes, name).required

\* checkForDeadEnds: walks the work list of states reachable from state 0;
\* TRUE when it raises the "Only non-generatable nodes" error.
RECURSIVE checkWork(_, _, _, _), pushNext(_, _, _)

pushNextNone(work, next, j) == work

pushNext(work, next, j) ==
  IF j > Len(next) THEN work
  ELSE pushNext(IF IndexOf(work, next[j].next) = 0 THEN Append(work, next[j].next) ELSE work,
                next, j + 1)

StateDead(nodeTypes, state) ==
  /\ ~state.validEnd
  /\ \A j \in DOMAIN state.next : NonGeneratable(nodeTypes, state.next[j].type)

checkWork(nodeTypes, d, work, i) ==
  IF i > Len(work) THEN FALSE
  ELSE LET state == d[work[i] + 1]
       IN IF StateDead(nodeTypes, state) THEN TRUE
          ELSE checkWork(nodeTypes, d, pushNext(work, state.next, 1), i + 1)

checkForDeadEnds(nodeTypes, d) == checkWork(nodeTypes, d, <<0>>, 1)

DeadEndError == "Only non-generatable nodes in a required position"

\* ContentMatch.parse: the automaton, or the error raised on the way.
parse(tokens, nodeTypes) ==
  LET stream == TokenStream(tokens, nodeTypes)
  IN IF StreamNext(stream) = NoTok THEN [err |-> NoErr, dfa |-> EmptyMatch]
     ELSE LET r == parseExpr(stream)
          IN IF r.stream.err # NoErr THEN [err |-> r.stream.err, dfa |-> <<>>]
             ELSE IF StreamNext(r.stream) # NoTok
             THEN [err |-> "Unexpected trailing text", dfa |-> <<>>]
             ELSE LET match == dfa(nfa(r.expr))
                  IN IF checkForDeadEnds(nodeTypes, match)
                     THEN [err |-> DeadEndError,
                           dfa |-> <<>>]
                     ELSE [err |-> NoErr, dfa |-> match]

\* matchType on state m of automaton d; NoState stands for null.
matchType(d, m, type) ==
  LET next == d[m + 1].next
  IN IF \E i \in DOMAIN next : next[i].type = type
     THEN next[CHOOSE i \in DOMAIN next :
                 next[i].type = type /\ \A j \in 1..(i-1) : next[j].type # type].next
     ELSE NoState

\* matchFragment over the types of the fragment's children from index
\* start (0-based) to end.
RECURSIVE matchFragment(_, _, _, _, _)
matchFragment(d, m, types, start, end) ==
  IF m = NoState \/ start >= end THEN m
  ELSE matchFragment(d, matchType(d, m, types[start + 1]), types, start + 1, end)

\* fillBefore: depth-first search over the edges in order, sharing one
\* `seen` list.  Yields [found, types, seen]; the source then maps
\* createAndFill over `types`.
RECURSIVE search(_, _, _, _, _, _, _, _), searchEdges(_, _, _, _, _, _, _, _, _)

search(nodeTypes, d, after, toEnd, startIndex, match, types, seen) ==
  LET finished == matchFragment(d, match, after, startIndex, Len(after))
  IN IF finished # NoState /\ (~toEnd \/ d[finished + 1].validEnd)
     THEN [found |-> TRUE, types |-> types, seen |-> seen]
     ELSE searchEdges(nodeTypes, d, after, toEnd, startIndex, match, types, seen, 1)

searchEdges(nodeTypes, d, after, toEnd, startIndex, match, types, seen, i) ==
  LET next == d[match + 1].next
  IN IF i > Len(next) THEN [found |-> FALSE, types |-> <<>>, seen |-> seen]
     ELSE IF ~NonGeneratable(nodeTypes, next[i].type) /\ IndexOf(seen, next[i].next) = 0
     THEN LET r == search(nodeTypes, d, after, toEnd, startIndex, next[i].next,
                          Append(types, next[i].type), Append(seen, next[i].next))
          IN IF r.found THEN r
             ELSE searchEdges(nodeTypes, d, after, toEnd, startIndex, match, types, r.seen, i + 1)
     ELSE searchEdges(nodeTypes, d, after, toEnd, startIndex, match, types, seen, i + 1)

fillBeforeNothing(nodeTypes, d, match, after, toEnd, startIndex) ==
  [found |-> TRUE, types |-> <<>>, seen |-> <<match>>]

fillBefore(nodeTypes, d, match, after, toEnd, startIndex) ==
  search(nodeTypes, d, after, toEnd, startIndex, match, <<>>, <<match>>)

\* -------------------------------- reference semantics of expressions
\* The language a content expression denotes under the standard reading of
\* sequence, choice, ?, *, + and the counted ranges {n}, {n,m}, {n,}.

Splits(w) == {<<SubSeq(w, 1, k), SubSeq(w, k + 1, Len(w))>> : k \in 0..Len(w)}

RECURSIVE Accepts(_, _), AcceptsSeq(_, _, _), AcceptsRep(_, _, _, _)

AcceptsSeq(exprs, i, w) ==
  IF i > Len(exprs) THEN w = <<>>
  ELSE \E sp \in Splits(w) : Accepts(exprs[i], sp[1]) /\ AcceptsSeq(exprs, i + 1, sp[2])

\* between mn and mx repetitions of e (mx = -1: unbounded)
AcceptsRep(e, mn, mx, w) ==
  \/ mn = 0 /\ w = <<>>
  \/ /\ mx = -1 \/ mx > 0
     /\ \E sp \in Splits(w) :
          /\ sp[1] # <<>>
          /\ Accepts(e, sp[1])
          /\ AcceptsRep(e, Max(mn - 1, 0), IF mx = -1 THEN -1 ELSE mx - 1, sp[2])
  \/ mn > 0 /\ (mx = -1 \/ mx > 0) /\ Accepts(e, <<>>)
     /\ AcceptsRep(e, mn - 1, IF mx = -1 THEN -1 ELSE mx - 1, w)

Accepts(expr, w) ==
  CASE expr.type = "name" -> w = <<expr.value>>
    [] expr.type = "choice" -> \E i \in DOMAIN expr.exprs : Accepts(expr.exprs[i], w)
    [] expr.type = "seq" -> AcceptsSeq(expr.exprs, 1, w)
    [] expr.type = "opt" -> w = <<>> \/ Accepts(expr.exprs[1], w)
    [] expr.type = "star" -> AcceptsRep(expr.exprs[1], 0, -1, w)
    [] expr.type = "plus" -> AcceptsRep(expr.exprs[1], 1, -1, w)
    [] OTHER -> AcceptsRep(expr.exprs[1], expr.min, expr.max, w)

\* The states reachable from the states S over exactly k edges of
\* generatable types.
RECURSIVE ReachK(_, _, _, _)
ReachK(nodeTypes, d, S, k) ==
  IF k = 0 THEN S
  ELSE ReachK(nodeTypes, d,
              UNION {{d[s + 1].next[j].next :
                        j \in {i \in DOMAIN d[s + 1].next :
                                 ~NonGeneratable(nodeTypes, d[s + 1].next[i].type)}} : s \in S},
              k - 1)

\* `after` fits from state s (and reaches an accepting state when toEnd).
Fits(d, s, after, toEnd) ==
  LET finished == matchFragment(d, s, after, 0, Len(after))
  IN finished # NoState /\ (~toEnd \/ d[finished + 1].validEnd)

\* Following `types` from state m: the state reached, NoState if none.
RECURSIVE Follow(_, _, _)
Follow(d, m, types) ==
  IF m = NoState \/ types = <<>> THEN m
  ELSE Follow(d, matchType(d, m, types[1]), Tail(types))

\* ------------------------------------- compiling and running an automaton
\* The node types of the automaton runs: a, b, c can be generated, r has a
\* required attribute, text is the (inline) text type; b and r form the
\* group g.

CMTypes ==
  << [name |-> "a", groups |-> {}, inline |-> FALSE, required |-> FALSE],
     [name |-> "b", groups |-> {"g"}, inline |-> FALSE, required |-> FALSE],
     [name |-> "c", groups |-> {}, inline |-> FALSE, required |-> FALSE],
     [name |-> "r", groups |-> {"g"}, inline |-> FALSE, required |-> TRUE],
     [name |-> "text", groups |-> {}, inline |-> TRUE, required |-> FALSE] >>

CMNames == {CMTypes[i].name : i \in DOMAIN CMTypes}

\* The content expressions compiled, as token sequences.
CMExprs ==
  { <<>>,
    <<"a">>,
    <<"a", "b">>,
    <<"a", "|", "b">>,
    <<"a", "?">>,
    <<"a", "*">>,
    <<"a", "+">>,
    <<"a", "?", "b">>,
    <<"a", "b", "?">>,
    <<"a", "{", "2", "}">>,
    <<"a", "{", "1", ",", "2", "}">>,
    <<"a", "{", "1", ",", "}">>,
    <<"a", "{", "0", ",", "}">>,
    <<"(", "a", "{", "0", ",", "}", "|", "b", ")">>,
    <<"(", "a", "{", "0", ",", "}", "b", ")", "*">>,
    <<"a", "b", "|", "c">>,
    <<"(", "a", "b", ")", "*", "c", "?">>,
    <<"(", "a", "|", "b", ")", "+", "c">>,
    <<"g">>,
    <<"g", "+">>,
    <<"a", "r">>,
    <<"a", "b", "r">>,
    <<"r", "a">>,
    <<"a", "r", "?">>,
    <<"text", "*">>,
    <<"text", "+">>,
    <<"a", "text">>,
    <<"a", "|">>,
    <<"a", "{", "2">>,
    <<"(", "a">>,
    <<"a", ")">>,
    <<"x">> }

MaxWord == 3

MaxAfter == 1

RECURSIVE WordsUpTo(_, _)
WordsUpTo(S, n) ==
  IF n = 0 THEN {<<>>}
  ELSE LET W == WordsUpTo(S, n - 1) IN W \cup {Append(w, x) : w \in W, x \in S}

NoFill == [called |-> FALSE, found |-> FALSE, types |-> <<>>, after |-> <<>>, toEnd |-> FALSE]

Unparsed == "unparsed"

InitCM ==
  /\ cmTokens \in CMExprs
  /\ cmExpr = OpExpr("seq", <<>>)
  /\ cmErr = Unparsed
  /\ cmDfa = <<>>
  /\ cmState = NoState
  /\ cmWord = <<>>
  /\ cmFill = NoFill
  /\ schema = Idle
  /\ IdleFrag /\ IdleRepl /\ IdleStep /\ IdleTr /\ IdleLater

\* ContentMatch.parse(string, nodeTypes), as the Schema constructor calls
\* it.  cmExpr and cmDfa keep the expression parsed and the automaton
\* built from it, also when checkForDeadEnds then rejects it.
CMParse ==
  /\ cmErr = Unparsed
  /\ LET stream == TokenStream(cmTokens, CMTypes)
         Parsed(r, p) ==
           LET syntaxOk == /\ StreamNext(stream) # NoTok
                           /\ r.stream.err = NoErr
                           /\ StreamNext(r.stream) = NoTok
           IN /\ cmExpr' = IF syntaxOk THEN r.expr ELSE OpExpr("seq", <<>>)
              /\ cmErr' = p.err
              /\ cmDfa' = IF StreamNext(stream) = NoTok THEN EmptyMatch
                          ELSE IF syntaxOk THEN dfa(nfa(r.expr)) ELSE <<>>
              /\ cmState' = IF p.err = NoErr THEN 0 ELSE NoState
     IN Parsed(parseExpr(stream), parse(cmTokens, CMTypes))
  /\ UNCHANGED <<cmTokens, cmWord, cmFill, schema, fragVars, replVars, stepVars, trVars, laterVars>>

\* cur = cur.matchType(type): one round of matchFragment's loop.
CMMatchType(type) ==
  /\ cmErr = NoErr
  /\ cmState # NoState
  /\ Len(cmWord) < MaxWord
  /\ cmState' = matchType(cmDfa, cmState, type)
  /\ cmWord' = Append(cmWord, type)
  /\ cmFill' = NoFill
  /\ UNCHANGED <<cmTokens, cmExpr, cmErr, cmDfa, schema, fragVars, replVars, stepVars, trVars, laterVars>>

\* state.fillBefore(after, toEnd) on the state reached.
CMFillBefore(after, toEnd) ==
  /\ cmErr = NoErr
  /\ cmState # NoState
  /\ LET r == fillBefore(CMTypes, cmDfa, cmState, after, toEnd, 0)
     IN cmFill' = [called |-> TRUE, found |-> r.found, types |-> r.types,
                   after |-> after, toEnd |-> toEnd]
  /\ UNCHANGED <<cmTokens, cmExpr, cmErr, cmDfa, cmState, cmWord,
                 schema, fragVars, replVars, stepVars, trVars, laterVars>>

NextCM ==
  \/ CMParse
  \/ \E type \in CMNames : CMMatchType(type)
  \/ \E after \in WordsUpTo(CMNames, MaxAfter), toEnd \in BOOLEAN : CMFillBefore(after, toEnd)

SpecCM == InitCM /\ [][NextCM]_vars

\* ---------------------------------------------------------- the schema
\* The schema of the tree runs: doc(block+), paragraph(inline*),
\* blockquote(block+), text, and the inline leaf br.  doc carries the
\* attribute v, paragraph the attribute align, both with default 0; em is
\* the only mark.

SchemaTypes ==
  << [name |-> "doc", groups |-> {}, inline |-> FALSE, required |-> FALSE,
      content |-> <<"block", "+">>, attrs |-> {<<"v", 0>>}],
     [name |-> "paragraph", groups |-> {"block"}, inline |-> FALSE, required |-> FALSE,
      content |-> <<"inline", "*">>, attrs |-> {<<"align", 0>>}],
     [name |-> "blockquote", groups |-> {"block"}, inline |-> FALSE, required |-> FALSE,
      content |-> <<"block", "+">>, attrs |-> {}],
     [name |-> "text", groups |-> {"inline"}, inline |-> TRUE, required |-> FALSE,
      content |-> <<>>, attrs |-> {}],
     [name |-> "br", groups |-> {"inline"}, inline |-> TRUE, required |-> FALSE,
      content |-> <<>>, attrs |-> {}] >>

SchemaNames == {SchemaTypes[i].name : i \in DOMAIN SchemaTypes}

\* type.contentMatch, as the Schema constructor sets it.
contentMatch ==
  [t \in SchemaNames |-> parse(TypeNamed(SchemaTypes, t).content, SchemaTypes).dfa]

isLeaf(type) == schema[type] = EmptyMatch

isText(type) == type = "text"

isInline(type) == TypeNamed(SchemaTypes, type).inline

\* ContentMatch.inlineContent of the type's start state.
inlineContent(type) ==
  LET next == schema[type][1].next
  IN Len(next) # 0 /\ isInline(next[1].type)

\* type.markSet == null (every mark allowed) or [] (none), for a type
\* whose spec names no marks.
allowsMarks(type, marks) == inlineContent(type) \/ marks = <<>>

\* ContentMatch.compatible on the two types' start states.
compatibleContent(type, other) ==
  \/ type = other
  \/ \E i \in DOMAIN schema[type][1].next, j \in DOMAIN schema[other][1].next :
       schema[type][1].next[i].type = schema[other][1].next[j].type

\* computeAttrs: the given values for the type's attributes, the default
\* for those not given.  Attributes are sets of <<name, value>>; Undefined
\* is the value of an attribute that an object does not have.
Undefined == -1

computeAttrs(type, attrs) ==
  {<<d[1], IF \E g \in attrs : g[1] = d[1] /\ g[2] # Undefined
           THEN (CHOOSE g \in attrs : g[1] = d[1])[2] ELSE d[2]>> :
     d \in TypeNamed(SchemaTypes, type).attrs}

\* ----------------------------------------------------- nodes, fragments

Node(type, attrs, content, marks) ==
  [type |-> type, attrs |-> attrs, content |-> content, text |-> <<>>, marks |-> marks]

TextNode(text, marks) ==
  [type |-> "text", attrs |-> {}, content |-> <<>>, text |-> text, marks |-> marks]

NullNode == [type |-> "<null>", attrs |-> {}, content |-> <<>>, text |-> <<>>, marks |-> <<>>]

\* A node size that counts two boundaries for every node but a text.
RECURSIVE nodeSizeBounded(_)
nodeSizeBounded(node) ==
  LET RECURSIVE sum(_)
      sum(content) == IF content = <<>> THEN 0
                      ELSE nodeSizeBounded(content[1]) + sum(Tail(content))
  IN IF isText(node.type) THEN Len(node.text) ELSE 2 + sum(node.content)

RECURSIVE nodeSize(_), size(_)

nodeSize(node) ==
  IF isText(node.type) THEN Len(node.text)
  ELSE IF isLeaf(node.type) THEN 1 ELSE 2 + size(node.content)

\* Fragment.size
size(content) == IF content = <<>> THEN 0 ELSE nodeSize(content[1]) + size(Tail(content))

sameMarkup(node, other) ==
  node.type = other.type /\ node.attrs = other.attrs /\ node.marks = other.marks

\* Node.eq and Fragment.eq: same markup and equal content, recursively;
\* on these records that is equality.
eq(node, other) ==
  sameMarkup(node, other) /\
    IF isText(node.type) THEN node.text = other.text ELSE node.content = other.content

copy(node, content) == [node EXCEPT !.content = content]

withText(node, text) == [node EXCEPT !.text = text]

child(content, index) == content[index + 1]

maybeChild(content, index) ==
  IF index >= 0 /\ index < Len(content) THEN content[index + 1] ELSE NullNode

\* Fragment.findIndex(pos) with round = -1; pos within 0..size.
RECURSIVE findIndexFrom(_, _, _, _)
findIndexFrom(content, pos, i, curPos) ==
  LET end == curPos + nodeSize(content[i + 1])
  IN IF end >= pos
     THEN IF end = pos THEN [index |-> i + 1, offset |-> end]
          ELSE [index |-> i, offset |-> curPos]
     ELSE findIndexFrom(content, pos, i + 1, end)

findIndex(content, pos) ==
  IF pos = 0 THEN [index |-> 0, offset |-> pos]
  ELSE IF pos = size(content) THEN [index |-> Len(content), offset |-> pos]
  ELSE findIndexFrom(content, pos, 0, 0)

\* Fragment.cut, Node.cut and TextNode.cut.
RECURSIVE cut(_, _, _), cutFrom(_, _, _, _, _, _)

cutNode(node, from, to) ==
  IF isText(node.type)
  THEN IF from = 0 /\ to = Len(node.text) THEN node
       ELSE withText(node, SubSeq(node.text, from + 1, to))
  ELSE IF from = 0 /\ to = size(node.content) THEN node
       ELSE copy(node, cut(node.content, from, to))

cutFrom(content, from, to, i, pos, result) ==
  IF pos >= to THEN result
  ELSE LET Kept(ch, end) ==
             IF end <= from THEN result
             ELSE IF pos < from \/ end > to
             THEN IF isText(ch.type)
                  THEN Append(result, cutNode(ch, Max(0, from - pos), Min(Len(ch.text), to - pos)))
                  ELSE Append(result, cutNode(ch, Max(0, from - pos - 1),
                                              Min(size(ch.content), to - pos - 1)))
             ELSE Append(result, ch)
           Step(ch, end) == cutFrom(content, from, to, i + 1, end, Kept(ch, end))
       IN Step(content[i + 1], pos + nodeSize(content[i + 1]))

cut(content, from, to) ==
  IF from = 0 /\ to = size(content) THEN content
  ELSE IF to > from THEN cutFrom(content, from, to, 0, 0, <<>>) ELSE <<>>

\* Fragment.append: joins the text nodes at the seam when they have the
\* same markup.
append(content, other) ==
  IF size(other) = 0 THEN content
  ELSE IF size(content) = 0 THEN other
  ELSE LET last == content[Len(content)]
           first == other[1]
       IN IF isText(last.type) /\ sameMarkup(last, first)
          THEN SubSeq(content, 1, Len(content) - 1)
                 \o <<withText(last, last.text \o first.text)>> \o Tail(other)
          ELSE content \o other

replaceChild(content, index, node) == [content EXCEPT ![index + 1] = node]

addToStart(content, node) == <<node>> \o content

addToEnd(content, node) == content \o <<node>>

\* Fragment.fromArray: joins each text node onto a preceding text node
\* with the same markup.
RECURSIVE fromArrayFrom(_, _, _)
fromArrayFrom(array, i, joined) ==
  IF i > Len(array) THEN joined
  ELSE IF i > 1 /\ isText(array[i].type) /\ sameMarkup(array[i - 1], array[i])
  THEN fromArrayFrom(array, i + 1,
                     [joined EXCEPT ![Len(joined)] =
                        withText(array[i], joined[Len(joined)].text \o array[i].text)])
  ELSE fromArrayFrom(array, i + 1, Append(joined, array[i]))

fromArray(array) == fromArrayFrom(array, 1, <<>>)

\* NodeType.create(attrs, content, marks) of a type other than text; the
\* content is not checked.
create(type, attrs, content, marks) ==
  Node(type, computeAttrs(type, attrs), fromArray(content), marks)

\* Fragment.fromJSON and Node.fromJSON: a JSON node is a record of the same
\* fields, attrs holding only the values that the JSON names.
RECURSIVE fromJSON(_), nodeFromJSON(_)

nodeFromJSON(json) ==
  IF json.type = "text" THEN TextNode(json.text, json.marks)
  ELSE Node(json.type, computeAttrs(json.type, json.attrs), fromJSON(json.content), json.marks)

fromJSON(value) == [i \in DOMAIN value |-> nodeFromJSON(value[i])]

\* ------------------------------------------------------------ positions
\* A resolved position holds pos, parentOffset and the path, one entry
\* [node, index, offset] per depth (the source keeps the three flat).

NullPos == [pos |-> -1, path |-> <<>>, parentOffset |-> -1]

RECURSIVE resolveFrom(_, _, _, _, _)
resolveFrom(pos, nd, path, start, parentOffset) ==
  LET Found(fi) ==
        LET path1 == Append(path, [node |-> nd, index |-> fi.index, offset |-> start + fi.offset])
            rem == parentOffset - fi.offset
        IN IF rem = 0 \/ isText(child(nd.content, fi.index).type)
           THEN [pos |-> pos, path |-> path1, parentOffset |-> parentOffset]
           ELSE resolveFrom(pos, child(nd.content, fi.index), path1,
                            start + fi.offset + 1, rem - 1)
  IN Found(findIndex(nd.content, parentOffset))

\* A resolve that stops at the document's own children.
resolveShallow(doc, pos) ==
  LET Found(fi) ==
        [pos |-> pos, path |-> <<[node |-> doc, index |-> fi.index, offset |-> fi.offset]>>,
         parentOffset |-> pos]
  IN Found(findIndex(doc.content, pos))

\* ResolvedPos.resolve for a position within 0..doc.content.size.
resolve(doc, pos) == resolveFrom(pos, doc, <<>>, 0, pos)

InRange(doc, pos) == pos >= 0 /\ pos <= size(doc.content)

posDepth(rp) == Len(rp.path) - 1

posNode(rp, depth) == rp.path[depth + 1].node

posIndex(rp, depth) == rp.path[depth + 1].index

textOffset(rp) == rp.pos - rp.path[Len(rp.path)].offset

indexAfter(rp, depth) ==
  posIndex(rp, depth) + (IF depth = posDepth(rp) /\ textOffset(rp) = 0 THEN 0 ELSE 1)

posStart(rp, depth) == IF depth = 0 THEN 0 ELSE rp.path[depth].offset + 1

posEnd(rp, depth) == posStart(rp, depth) + size(posNode(rp, depth).content)

nodeAfter(rp) ==
  LET parent == posNode(rp, posDepth(rp))
      index == posIndex(rp, posDepth(rp))
  IN IF index = Len(parent.content) THEN NullNode
     ELSE IF textOffset(rp) # 0
          THEN cutNode(child(parent.content, index), textOffset(rp),
                       nodeSize(child(parent.content, index)))
          ELSE child(parent.content, index)

nodeBefore(rp) ==
  LET parent == posNode(rp, posDepth(rp))
      index == posIndex(rp, posDepth(rp))
  IN IF textOffset(rp) # 0 THEN cutNode(child(parent.content, index), 0, textOffset(rp))
     ELSE IF index = 0 THEN NullNode ELSE child(parent.content, index - 1)

RECURSIVE sharedDepthFrom(_, _, _)
sharedDepthFrom(rp, pos, depth) ==
  IF depth <= 0 THEN 0
  ELSE IF posStart(rp, depth) <= pos /\ posEnd(rp, depth) >= pos THEN depth
  ELSE sharedDepthFrom(rp, pos, depth - 1)

sharedDepth(rp, pos) == sharedDepthFrom(rp, pos, posDepth(rp))

\* -------------------------------------------------------------- slices

Slice(content, openStart, openEnd) ==
  [content |-> content, openStart |-> openStart, openEnd |-> openEnd]

SliceEmpty == Slice(<<>>, 0, 0)

sliceSize(slice) == size(slice.content) - slice.openStart - slice.openEnd

\* Node.slice(from, to), both within the node's content.
slice(nd, from, to) ==
  IF from = to THEN SliceEmpty
  ELSE LET rfrom == resolve(nd, from)
           rto == resolve(nd, to)
           depth == sharedDepth(rfrom, to)
           start == posStart(rfrom, depth)
       IN Slice(cut(posNode(rfrom, depth).content, from - start, to - start),
                posDepth(rfrom) - depth, posDepth(rto) - depth)

\* ------------------------------------------------------------- replace
\* A function that can throw yields [err, node] or [err, nodes]: err names
\* the class of the error thrown (NoErr when it returns), in the order in
\* which the source would throw.

ReplaceError == "ReplaceError"

RangeError == "RangeError"

Threw(err) == [err |-> err, node |-> NullNode]

Returned(nd) == [err |-> NoErr, node |-> nd]

Nodes(nodes) == [err |-> NoErr, nodes |-> nodes]

ThrewNodes(err) == [err |-> err, nodes |-> <<>>]

TypesOf(content) == [i \in DOMAIN content |-> content[i].type]

\* NodeType.validContent
validContent(type, content) ==
  LET result == matchFragment(schema[type], 0, TypesOf(content), 0, Len(content))
  IN /\ result # NoState
     /\ schema[type][result + 1].validEnd
     /\ \A i \in DOMAIN content : allowsMarks(type, content[i].marks)

\* close(node, content): checkContent throws a RangeError.
close(nd, r) ==
  IF r.err # NoErr THEN Threw(r.err)
  ELSE IF ~validContent(nd.type, r.nodes) THEN Threw(RangeError)
  ELSE Returned(copy(nd, r.nodes))

\* checkJoin(main, sub)
checkJoin(main, sub) == compatibleContent(sub.type, main.type)

\* An addNode that never joins two texts.
addNodeApart(ch, target) == Append(target, ch)

addNode(ch, target) ==
  IF Len(target) > 0 /\ isText(ch.type) /\ sameMarkup(ch, target[Len(target)])
  THEN [target EXCEPT ![Len(target)] = withText(ch, target[Len(target)].text \o ch.text)]
  ELSE Append(target, ch)

RECURSIVE addChildren(_, _, _, _)
addChildren(nd, i, endIndex, target) ==
  IF i >= endIndex THEN target
  ELSE addChildren(nd, i + 1, endIndex, addNode(child(nd.content, i), target))

\* addRange($start, $end, depth, target); NullPos stands for null.
addRange(rstart, rend, depth, target) ==
  LET nd == posNode(IF rend # NullPos THEN rend ELSE rstart, depth)
      endIndex == IF rend # NullPos THEN posIndex(rend, depth) ELSE Len(nd.content)
      cutStart == rstart # NullPos /\ posDepth(rstart) <= depth /\ textOffset(rstart) # 0
      startIndex == IF rstart = NullPos THEN 0
                    ELSE IF posDepth(rstart) > depth \/ textOffset(rstart) # 0
                    THEN posIndex(rstart, depth) + 1
                    ELSE posIndex(rstart, depth)
      t1 == IF cutStart THEN addNode(nodeAfter(rstart), target) ELSE target
      t2 == addChildren(nd, startIndex, endIndex, t1)
  IN IF rend # NullPos /\ posDepth(rend) = depth /\ textOffset(rend) # 0
     THEN addNode(nodeBefore(rend), t2)
     ELSE t2

\* The statements of replaceTwoWay and replaceThreeWay that follow a
\* nested close(...): add the closed node, or pass its error on.
AddClosed(closed, target) ==
  IF closed.err # NoErr THEN ThrewNodes(closed.err)
  ELSE Nodes(addNode(closed.node, target))

RECURSIVE replaceTwoWay(_, _, _)
replaceTwoWay(rfrom, rto, depth) ==
  LET Tail2(r) == IF r.err # NoErr THEN r ELSE Nodes(addRange(rto, NullPos, depth, r.nodes))
      content == addRange(NullPos, rfrom, depth, <<>>)
  IN IF posDepth(rfrom) > depth
     THEN IF ~checkJoin(posNode(rfrom, depth + 1), posNode(rto, depth + 1))
          THEN ThrewNodes(ReplaceError)
          ELSE Tail2(AddClosed(close(posNode(rfrom, depth + 1),
                                     replaceTwoWay(rfrom, rto, depth + 1)),
                               content))
     ELSE Tail2(Nodes(content))

RECURSIVE replaceThreeWay(_, _, _, _, _)
replaceThreeWay(rfrom, rstart, rend, rto, depth) ==
  LET openStart == posDepth(rfrom) > depth
      openEnd == posDepth(rto) > depth
      startNode == posNode(rfrom, depth + 1)
      endNode == posNode(rend, depth + 1)
      content == addRange(NullPos, rfrom, depth, <<>>)
      Tail3(r) == IF r.err # NoErr THEN r ELSE Nodes(addRange(rto, NullPos, depth, r.nodes))
      Last(r) ==
        IF r.err # NoErr \/ ~openEnd THEN r
        ELSE AddClosed(close(endNode, replaceTwoWay(rend, rto, depth + 1)), r.nodes)
      Middle(r) ==
        IF r.err # NoErr THEN r ELSE Last(Nodes(addRange(rstart, rend, depth, r.nodes)))
  IN IF openStart /\ ~checkJoin(startNode, posNode(rstart, depth + 1))
     THEN ThrewNodes(ReplaceError)
     ELSE IF openEnd /\ ~checkJoin(endNode, posNode(rto, depth + 1))
     THEN ThrewNodes(ReplaceError)
     ELSE IF openStart /\ openEnd /\ posIndex(rstart, depth) = posIndex(rend, depth)
     THEN IF ~checkJoin(startNode, endNode) THEN ThrewNodes(ReplaceError)
          ELSE Tail3(AddClosed(close(startNode,
                                     replaceThreeWay(rfrom, rstart, rend, rto, depth + 1)),
                               content))
     ELSE IF openStart
     THEN Tail3(Middle(AddClosed(close(startNode, replaceTwoWay(rfrom, rstart, depth + 1)),
                                 content)))
     ELSE Tail3(Middle(Nodes(content)))

\* prepareSliceForReplace: the slice wrapped in the ancestors of $along.
RECURSIVE wrapAlong(_, _, _)
wrapAlong(ralong, nd, i) ==
  IF i < 0 THEN nd
  ELSE wrapAlong(ralong, copy(posNode(ralong, i), <<nd>>), i - 1)

prepareSliceForReplace(sl, ralong) ==
  LET extra == posDepth(ralong) - sl.openStart
      nd == wrapAlong(ralong, copy(posNode(ralong, extra), sl.content), extra - 1)
  IN [start |-> resolve(nd, sl.openStart + extra),
      end |-> resolve(nd, size(nd.content) - sl.openEnd - extra)]

RECURSIVE replaceOuter(_, _, _, _)
replaceOuter(rfrom, rto, sl, depth) ==
  LET index == posIndex(rfrom, depth)
      nd == posNode(rfrom, depth)
      Inner(inner) ==
        IF inner.err # NoErr THEN inner
        ELSE Returned(copy(nd, replaceChild(nd.content, index, inner.node)))
      Prepared(pr) == close(nd, replaceThreeWay(rfrom, pr.start, pr.end, rto, depth))
  IN IF index = posIndex(rto, depth) /\ depth < posDepth(rfrom) - sl.openStart
     THEN Inner(replaceOuter(rfrom, rto, sl, depth + 1))
     ELSE IF size(sl.content) = 0
     THEN close(nd, replaceTwoWay(rfrom, rto, depth))
     ELSE IF sl.openStart = 0 /\ sl.openEnd = 0 /\ posDepth(rfrom) = depth /\ posDepth(rto) = depth
     THEN close(nd, Nodes(append(append(cut(nd.content, 0, rfrom.parentOffset), sl.content),
                                 cut(nd.content, rto.parentOffset, size(nd.content)))))
     ELSE Prepared(prepareSliceForReplace(sl, rfrom))

\* replace with the two depth checks raising a RangeError.
replaceRangeError(rfrom, rto, sl) ==
  IF sl.openStart > posDepth(rfrom) THEN Threw(RangeError)
  ELSE IF posDepth(rfrom) - sl.openStart # posDepth(rto) - sl.openEnd THEN Threw(RangeError)
  ELSE replaceOuter(rfrom, rto, sl, 0)

\* replace($from, $to, slice)
replace(rfrom, rto, sl) ==
  IF sl.openStart > posDepth(rfrom) THEN Threw(ReplaceError)
  ELSE IF posDepth(rfrom) - sl.openStart # posDepth(rto) - sl.openEnd THEN Threw(ReplaceError)
  ELSE replaceOuter(rfrom, rto, sl, 0)

\* Node.replace(from, to, slice): resolving a position outside the
\* document throws a RangeError.
nodeReplace(doc, from, to, sl) ==
  IF ~InRange(doc, from) \/ ~InRange(doc, to) THEN Threw(RangeError)
  ELSE replace(resolve(doc, from), resolve(doc, to), sl)

\* ---------------------------------------------------------------- steps

\* Node.nodeAt(pos)
RECURSIVE nodeAt(_, _)
nodeAt(nd, pos) ==
  LET At(fi) ==
        LET ch == maybeChild(nd.content, fi.index)
        IN IF ch = NullNode THEN NullNode
           ELSE IF fi.offset = pos \/ isText(ch.type) THEN ch
           ELSE nodeAt(ch, pos - fi.offset - 1)
  IN At(findIndex(nd.content, pos))

\* insertInto(content, dist, insert) without a parent, as Slice.insertAt
\* calls it; dist within the content.
RECURSIVE insertInto(_, _, _)
insertInto(content, dist, insert) ==
  LET At(fi) ==
        LET ch == maybeChild(content, fi.index)
        IN IF fi.offset = dist \/ isText(ch.type)
           THEN append(append(cut(content, 0, dist), insert),
                       cut(content, dist, size(content)))
           ELSE replaceChild(content, fi.index,
                             copy(ch, insertInto(ch.content, dist - fi.offset - 1, insert)))
  IN At(findIndex(content, dist))

\* Slice.insertAt(pos, fragment)
insertAt(sl, pos, fragment) ==
  Slice(insertInto(sl.content, pos + sl.openStart, fragment), sl.openStart, sl.openEnd)

\* removeRange(content, from, to): [err, nodes], a RangeError for a
\* non-flat range.
RECURSIVE removeRange(_, _, _)
removeRange(content, from, to) ==
  LET At(fi, fiTo) ==
        LET ch == maybeChild(content, fi.index)
            Inner(r) == IF r.err # NoErr THEN r
                        ELSE Nodes(replaceChild(content, fi.index, copy(ch, r.nodes)))
        IN IF fi.offset = from \/ isText(ch.type)
           THEN IF fiTo.offset # to /\ ~isText(child(content, fiTo.index).type)
                THEN ThrewNodes(RangeError)
                ELSE Nodes(append(cut(content, 0, from), cut(content, to, size(content))))
           ELSE IF fi.index # fiTo.index THEN ThrewNodes(RangeError)
           ELSE Inner(removeRange(ch.content, from - fi.offset - 1, to - fi.offset - 1))
  IN At(findIndex(content, from), findIndex(content, to))

\* Slice.removeBetween(from, to): [err, slice]
removeBetween(sl, from, to) ==
  LET Removed(r) == [err |-> r.err, slice |-> Slice(r.nodes, sl.openStart, sl.openEnd)]
  IN Removed(removeRange(sl.content, from + sl.openStart, to + sl.openStart))

\* contentBetween(doc, from, to)
RECURSIVE climb(_, _, _), descend(_, _)

climb(rfrom, dist, depth) ==
  IF dist > 0 /\ depth > 0 /\ indexAfter(rfrom, depth) = Len(posNode(rfrom, depth).content)
  THEN climb(rfrom, dist - 1, depth - 1)
  ELSE [dist |-> dist, depth |-> depth]

descend(next, dist) ==
  IF dist <= 0 THEN FALSE
  ELSE IF next = NullNode \/ isLeaf(next.type) THEN TRUE
  ELSE descend(maybeChild(next.content, 0), dist - 1)

contentBetween(doc, from, to) ==
  LET rfrom == resolve(doc, from)
      Up(c) == /\ c.dist > 0
               /\ descend(maybeChild(posNode(rfrom, c.depth).content, indexAfter(rfrom, c.depth)),
                          c.dist)
  IN Up(climb(rfrom, to - from, posDepth(rfrom)))

\* StepMap: ranges holds start, oldSize, newSize per replaced range.
StepMap(ranges) == [ranges |-> ranges, inverted |-> FALSE]

StepMapEmpty == StepMap(<<>>)

\* StepMap.invert()
invert(m) == [m EXCEPT !.inverted = ~m.inverted]

\* _map taking the given assoc as the side at every range.
RECURSIVE mapFromAssoc(_, _, _, _, _)
mapFromAssoc(m, pos, assoc, i, diff) ==
  IF i >= Len(m.ranges) THEN pos + diff
  ELSE LET oldIndex == IF m.inverted THEN 2 ELSE 1
           newIndex == IF m.inverted THEN 1 ELSE 2
           start == m.ranges[i + 1] - (IF m.inverted THEN diff ELSE 0)
           oldSize == m.ranges[i + 1 + oldIndex]
           newSize == m.ranges[i + 1 + newIndex]
       IN IF start > pos THEN pos + diff
          ELSE IF pos <= start + oldSize
          THEN start + diff + (IF assoc < 0 THEN 0 ELSE newSize)
          ELSE mapFromAssoc(m, pos, assoc, i + 3, diff + newSize - oldSize)

\* StepMap.map(pos, assoc): _map with simple = true.
RECURSIVE mapFrom(_, _, _, _, _)
mapFrom(m, pos, assoc, i, diff) ==
  IF i >= Len(m.ranges) THEN pos + diff
  ELSE LET oldIndex == IF m.inverted THEN 2 ELSE 1
           newIndex == IF m.inverted THEN 1 ELSE 2
           start == m.ranges[i + 1] - (IF m.inverted THEN diff ELSE 0)
           oldSize == m.ranges[i + 1 + oldIndex]
           newSize == m.ranges[i + 1 + newIndex]
           end == start + oldSize
           side == IF oldSize = 0 THEN assoc
                   ELSE IF pos = start THEN -1 ELSE IF pos = end THEN 1 ELSE assoc
       IN IF start > pos THEN pos + diff
          ELSE IF pos <= end THEN start + diff + (IF side < 0 THEN 0 ELSE newSize)
          ELSE mapFrom(m, pos, assoc, i + 3, diff + newSize - oldSize)

map(m, pos, assoc) == mapFrom(m, pos, assoc, 0, 0)

\* A step: one record for the four step classes, the fields that a class
\* does not have at their idle values.
StepOf(stepType, from, to, gapFrom, gapTo, sl, insert, structure, pos, attr, value) ==
  [stepType |-> stepType, from |-> from, to |-> to, gapFrom |-> gapFrom, gapTo |-> gapTo,
   slice |-> sl, insert |-> insert, structure |-> structure,
   pos |-> pos, attr |-> attr, value |-> value]

ReplaceStep(from, to, sl, structure) ==
  StepOf("replace", from, to, 0, 0, sl, 0, structure, 0, "", 0)

ReplaceAroundStep(from, to, gapFrom, gapTo, sl, insert, structure) ==
  StepOf("replaceAround", from, to, gapFrom, gapTo, sl, insert, structure, 0, "", 0)

AttrStep(pos, attr, value) ==
  StepOf("attr", 0, 0, 0, 0, SliceEmpty, 0, FALSE, pos, attr, value)

DocAttrStep(attr, value) ==
  StepOf("docAttr", 0, 0, 0, 0, SliceEmpty, 0, FALSE, 0, attr, value)

\* A StepResult, or the error that apply threw: failed is the failure
\* message (NoTerm for null; the message of a ReplaceError is kept as the
\* name of its class), err the class of an error thrown.
ok(doc) == [failed |-> NoTerm, err |-> NoErr, doc |-> doc]

fail(message) == [failed |-> message, err |-> NoErr, doc |-> NullNode]

StepThrew(err) == [failed |-> NoTerm, err |-> err, doc |-> NullNode]

\* StepResult.fromReplace: only a ReplaceError becomes a failed result.
fromReplace(doc, from, to, sl) ==
  LET Caught(r) ==
        IF r.err = NoErr THEN ok(r.node)
        ELSE IF r.err = ReplaceError THEN fail(ReplaceError)
        ELSE StepThrew(r.err)
  IN Caught(nodeReplace(doc, from, to, sl))

\* attrs with attrs[attr] = value
setAttr(attrs, attr, value) == {a \in attrs : a[1] # attr} \cup {<<attr, value>>}

attrOf(attrs, attr) ==
  IF \E a \in attrs : a[1] = attr THEN (CHOOSE a \in attrs : a[1] = attr)[2] ELSE Undefined

\* step.apply(doc) of the four step classes.
apply(step, doc) ==
  LET Done(r) == [replace |-> FALSE, result |-> r, from |-> 0, to |-> 0, slice |-> SliceEmpty]
      Splice(from, to, sl) ==
        [replace |-> TRUE, result |-> fail(""), from |-> from, to |-> to, slice |-> sl]
      Run(plan) ==
        IF plan.replace THEN fromReplace(doc, plan.from, plan.to, plan.slice)
        ELSE plan.result
  IN Run(
    CASE step.stepType = "replace" ->
           IF step.structure /\ contentBetween(doc, step.from, step.to)
           THEN Done(fail("Structure replace would overwrite content"))
           ELSE Splice(step.from, step.to, step.slice)
      [] step.stepType = "replaceAround" ->
           IF step.structure /\ (contentBetween(doc, step.from, step.gapFrom)
                                 \/ contentBetween(doc, step.gapTo, step.to))
           THEN Done(fail("Structure gap-replace would overwrite content"))
           ELSE LET gap == slice(doc, step.gapFrom, step.gapTo)
                IN IF gap.openStart # 0 \/ gap.openEnd # 0
                   THEN Done(fail("Gap is not a flat range"))
                   ELSE Splice(step.from, step.to,
                               insertAt(step.slice, step.insert, gap.content))
      [] step.stepType = "attr" ->
           LET nd == nodeAt(doc, step.pos)
           IN IF nd = NullNode THEN Done(fail("No node at attribute step's position"))
              ELSE IF isText(nd.type) THEN Done(StepThrew("Error"))
              ELSE Splice(step.pos, step.pos + 1,
                     Slice(<<create(nd.type, setAttr(nd.attrs, step.attr, step.value),
                                    <<>>, nd.marks)>>,
                           0, IF isLeaf(nd.type) THEN 0 ELSE 1))
      [] step.stepType = "docAttr" ->
           Done(ok(create(doc.type, setAttr(doc.attrs, step.attr, step.value),
                          doc.content, doc.marks))))

\* step.getMap()
getMap(step) ==
  CASE step.stepType = "replace" ->
         StepMap(<<step.from, step.to - step.from, sliceSize(step.slice)>>)
    [] step.stepType = "replaceAround" ->
         StepMap(<<step.from, step.gapFrom - step.from, step.insert,
                   step.gapTo, step.to - step.gapTo, sliceSize(step.slice) - step.insert>>)
    [] OTHER -> StepMapEmpty

\* step.invert(doc): [err, step]; removeBetween can throw.
invertStep(step, doc) ==
  CASE step.stepType = "replace" ->
         [err |-> NoErr,
          step |-> ReplaceStep(step.from, step.from + sliceSize(step.slice),
                               slice(doc, step.from, step.to), FALSE)]
    [] step.stepType = "replaceAround" ->
         LET gap == step.gapTo - step.gapFrom
             Inv(r) ==
               [err |-> r.err,
                step |-> ReplaceAroundStep(step.from, step.from + sliceSize(step.slice) + gap,
                                           step.from + step.insert, step.from + step.insert + gap,
                                           r.slice, step.gapFrom - step.from, step.structure)]
         IN Inv(removeBetween(slice(doc, step.from, step.to),
                              step.gapFrom - step.from, step.gapTo - step.from))
    [] step.stepType = "attr" ->
         [err |-> IF nodeAt(doc, step.pos) = NullNode THEN "TypeError" ELSE NoErr,
          step |-> AttrStep(step.pos, step.attr, attrOf(nodeAt(doc, step.pos).attrs, step.attr))]
    [] step.stepType = "docAttr" ->
         [err |-> NoErr, step |-> DocAttrStep(step.attr, attrOf(doc.attrs, step.attr))]

\* ------------------------------------------------------ sample documents
\* Schema.text(text, marks), and Schema.node(type, attrs, content) for a
\* content that the type accepts.
schemaText(str, marks) == TextNode(str, marks)

schemaNode(type, attrs, content) == create(type, attrs, content, <<>>)

\* doc(p("ab")), doc(p("a"), p[align=1]("b")), doc(blockquote(p("a")), p()),
\* doc(p("a", br, em("b"))).
SampleDocs ==
  {schemaNode("doc", {}, <<schemaNode("paragraph", {}, <<schemaText(<<"a", "b">>, <<>>)>>)>>),
   schemaNode("doc", {},
     <<schemaNode("paragraph", {}, <<schemaText(<<"a">>, <<>>)>>),
       schemaNode("paragraph", {<<"align", 1>>}, <<schemaText(<<"b">>, <<>>)>>)>>),
   schemaNode("doc", {},
     <<schemaNode("blockquote", {},
         <<schemaNode("paragraph", {}, <<schemaText(<<"a">>, <<>>)>>)>>),
       create("paragraph", {}, <<>>, <<>>)>>),
   schemaNode("doc", {},
     <<schemaNode("paragraph", {},
         <<schemaText(<<"a">>, <<>>), create("br", {}, <<>>, <<>>),
           schemaText(<<"b">>, <<"em">>)>>)>>)}

\* Node.fromJSON of a document whose paragraph lists the texts "a" and "b".
JSONDoc ==
  nodeFromJSON(
    [type |-> "doc", attrs |-> {}, marks |-> <<>>, text |-> <<>>,
     content |->
       <<[type |-> "paragraph", attrs |-> {}, marks |-> <<>>, text |-> <<>>,
          content |->
            <<[type |-> "text", attrs |-> {}, marks |-> <<>>, content |-> <<>>,
               text |-> <<"a">>],
              [type |-> "text", attrs |-> {}, marks |-> <<>>, content |-> <<>>,
               text |-> <<"b">>]>>]>>])

\* Slices: empty; the text x; p(x) closed, open on both sides, open on
\* one side; p(x), p(y) open on both sides; blockquote(p(x)) open by two;
\* a closed blockquote(p()); the leaf br.
SampleSlices ==
  LET px == schemaNode("paragraph", {}, <<schemaText(<<"x">>, <<>>)>>)
      py == schemaNode("paragraph", {}, <<schemaText(<<"y">>, <<>>)>>)
  IN {SliceEmpty,
      Slice(<<schemaText(<<"x">>, <<>>)>>, 0, 0),
      Slice(<<px>>, 0, 0), Slice(<<px>>, 1, 1), Slice(<<px>>, 1, 0), Slice(<<px>>, 0, 1),
      Slice(<<px, py>>, 1, 1),
      Slice(<<schemaNode("blockquote", {}, <<px>>)>>, 2, 2),
      Slice(<<schemaNode("blockquote", {}, <<create("paragraph", {}, <<>>, <<>>)>>)>>, 0, 0),
      Slice(<<create("br", {}, <<>>, <<>>)>>, 0, 0)}

\* ----------------------------------------------------- one call of replace

NotCalled == [called |-> FALSE, err |-> NoErr, node |-> NullNode]

InitReplace ==
  /\ schema = contentMatch
  /\ rDoc \in SampleDocs \cup {JSONDoc}
  /\ rSlice \in SampleSlices
  /\ rTo \in 0..size(rDoc.content)
  /\ rFrom \in 0..rTo
  /\ rResult = NotCalled
  /\ IdleCM /\ IdleFrag /\ IdleStep /\ IdleTr /\ IdleLater

\* rDoc.replace(rFrom, rTo, rSlice)
Replace ==
  /\ ~rResult.called
  /\ LET Done(r) == rResult' = [called |-> TRUE, err |-> r.err, node |-> r.node]
     IN Done(nodeReplace(rDoc, rFrom, rTo, rSlice))
  /\ UNCHANGED <<rDoc, rFrom, rTo, rSlice, schema, cmVars, fragVars, stepVars, trVars, laterVars>>

NextReplace == Replace

SpecReplace == InitReplace /\ [][NextReplace]_vars

\* ------------------------------------------- one step, inverted and mapped
\* The slices of replace-around steps with the position in the slice at
\* which the gap goes: nothing (lift), a blockquote around the gap (wrap),
\* a paragraph around the gap (retype), and a paragraph with text followed
\* by a blockquote around the gap.
AroundSlices ==
  {<<SliceEmpty, 0>>,
   <<Slice(<<create("blockquote", {}, <<>>, <<>>)>>, 0, 0), 1>>,
   <<Slice(<<create("paragraph", {<<"align", 1>>}, <<>>, <<>>)>>, 0, 0), 1>>,
   <<Slice(<<schemaNode("paragraph", {}, <<schemaText(<<"x">>, <<>>)>>),
             create("blockquote", {}, <<>>, <<>>)>>, 0, 0), 4>>}

\* The longest stretch that a replace-around step replaces on either side
\* of its gap.
MaxAround == 2

\* The steps tried on the document d: every replace step over a sample
\* slice, the replace-around steps over AroundSlices, and the attribute
\* steps that set align or v to 1.
StepsOn(d) ==
  LET last == size(d.content)
  IN {ReplaceStep(from, to, sl, structure) :
        from \in 0..last, to \in 0..last, sl \in SampleSlices, structure \in BOOLEAN}
     \cup {ReplaceAroundStep(gapFrom - before, gapTo + after, gapFrom, gapTo,
                             si[1], si[2], structure) :
             gapFrom \in 0..last, gapTo \in 0..last, before \in 0..MaxAround,
             after \in 0..MaxAround, si \in AroundSlices, structure \in BOOLEAN}
     \cup {AttrStep(pos, "align", 1) : pos \in 0..last}
     \cup {DocAttrStep("v", 1)}

NotApplied == [called |-> FALSE, failed |-> NoTerm, err |-> NoErr, doc |-> NullNode]

NotInverted == [called |-> FALSE, err |-> NoErr, step |-> DocAttrStep("", 0)]

NotMapped == [called |-> FALSE, pos |-> 0, forward |-> 0, back |-> 0]

Called(r) == [called |-> TRUE, failed |-> r.failed, err |-> r.err, doc |-> r.doc]

Succeeded(r) == r.called /\ r.err = NoErr /\ r.failed = NoTerm

InitStep ==
  /\ schema = contentMatch
  /\ sDoc \in SampleDocs
  /\ sStep \in StepsOn(sDoc)
  /\ sStep.from <= sStep.to /\ sStep.from >= 0 /\ sStep.to <= size(sDoc.content)
  /\ sStep.gapFrom <= sStep.gapTo
  /\ sApplied = NotApplied
  /\ sInverse = NotInverted
  /\ sRestored = NotApplied
  /\ sMapped = NotMapped
  /\ IdleCM /\ IdleFrag /\ IdleRepl /\ IdleTr /\ IdleLater

\* sStep.apply(sDoc)
StepApply ==
  /\ ~sApplied.called
  /\ sApplied' = Called(apply(sStep, sDoc))
  /\ UNCHANGED <<sDoc, sStep, sInverse, sRestored, sMapped,
                 schema, cmVars, fragVars, replVars, trVars, laterVars>>

\* sStep.invert(sDoc), for a step that applied.
StepInvert ==
  /\ Succeeded(sApplied)
  /\ ~sInverse.called
  /\ LET Inverted(r) == sInverse' = [called |-> TRUE, err |-> r.err, step |-> r.step]
     IN Inverted(invertStep(sStep, sDoc))
  /\ UNCHANGED <<sDoc, sStep, sApplied, sRestored, sMapped,
                 schema, cmVars, fragVars, replVars, trVars, laterVars>>

\* The inverted step applied to the document that the step produced.
StepApplyInverse ==
  /\ sInverse.called /\ sInverse.err = NoErr
  /\ ~sRestored.called
  /\ sRestored' = Called(apply(sInverse.step, sApplied.doc))
  /\ UNCHANGED <<sDoc, sStep, sApplied, sInverse, sMapped,
                 schema, cmVars, fragVars, replVars, trVars, laterVars>>

\* sInverse.getMap().map(sStep.getMap().map(pos))
StepMapPos(pos) ==
  /\ sInverse.called /\ sInverse.err = NoErr
  /\ ~sMapped.called
  /\ LET Back(forward) ==
           sMapped' = [called |-> TRUE, pos |-> pos, forward |-> forward,
                       back |-> map(getMap(sInverse.step), forward, 1)]
     IN Back(map(getMap(sStep), pos, 1))
  /\ UNCHANGED <<sDoc, sStep, sApplied, sInverse, sRestored,
                 schema, cmVars, fragVars, replVars, trVars, laterVars>>

NextStep ==
  \/ StepApply
  \/ StepInvert
  \/ StepApplyInverse
  \/ \E pos \in 0..size(sDoc.content) : StepMapPos(pos)

SpecStep == InitStep /\ [][NextStep]_vars

\* ------------------------------------------------------------ transform
\* A Transform is the record of its doc, steps, docs and mapping; a Mapping
\* that of its maps, the mirror pairs and the range from..to that it
\* applies.
Transform(d) ==
  [doc |-> d, steps |-> <<>>, docs |-> <<>>, mapping |-> [maps |-> <<>>, mirror |-> <<>>, from |-> 0, to |-> 0]]

\* Mapping.appendMap(map) without a mirror.
appendMap(mp, m) ==
  [maps |-> Append(mp.maps, m), mirror |-> mp.mirror, from |-> mp.from,
   to |-> Len(mp.maps) + 1]

\* An addStep that leaves the mapping as it is.
addStepUnmapped(tr, st, d) ==
  [doc |-> d, steps |-> Append(tr.steps, st), docs |-> Append(tr.docs, tr.doc),
   mapping |-> tr.mapping]

\* Transform.addStep(step, doc)
addStep(tr, st, d) ==
  [doc |-> d, steps |-> Append(tr.steps, st), docs |-> Append(tr.docs, tr.doc),
   mapping |-> appendMap(tr.mapping, getMap(st))]

\* maybeStep adding the step whatever the result of apply.
maybeStepAlways(tr, st) ==
  LET Applied(r) == [tr |-> addStep(tr, st, r.doc), result |-> r]
  IN Applied(apply(st, tr.doc))

\* Transform.maybeStep(step): [tr, result]; result.err is set when apply
\* threw.
maybeStep(tr, st) ==
  LET Applied(r) ==
        [tr |-> IF r.err = NoErr /\ r.failed = NoTerm THEN addStep(tr, st, r.doc) ELSE tr,
         result |-> r]
  IN Applied(apply(st, tr.doc))

TransformError == "TransformError"

\* Transform.step(step): throws a TransformError when the result failed.
transformStep(tr, st) ==
  LET Stepped(r) ==
        IF r.result.err = NoErr /\ r.result.failed # NoTerm
        THEN [tr |-> r.tr, result |-> [r.result EXCEPT !.err = TransformError]]
        ELSE r
  IN Stepped(maybeStep(tr, st))

\* The most steps that a Transform run records.
MaxSteps == 2

\* The steps given to a Transform on the document d: deleting a range,
\* inserting the text x, setting align at a position and v on the
\* document, wrapping the whole content in a blockquote and lifting it out
\* of one.
TransformSteps(d) ==
  LET last == size(d.content)
  IN {ReplaceStep(from, to, SliceEmpty, FALSE) : from \in 0..last, to \in 1..last}
     \cup {ReplaceStep(pos, pos, Slice(<<schemaText(<<"x">>, <<>>)>>, 0, 0), FALSE) :
             pos \in 0..last}
     \cup {ReplaceAroundStep(0, last, 1, last - 1, SliceEmpty, 0, TRUE),
           ReplaceAroundStep(0, last, 0, last,
                             Slice(<<create("blockquote", {}, <<>>, <<>>)>>, 0, 0), 1, TRUE)}
     \cup {AttrStep(pos, "align", 1) : pos \in 0..last}
     \cup {DocAttrStep("v", 1)}

NoCall == [failed |-> NoTerm, err |-> NoErr]

Init ==
  /\ schema = contentMatch
  /\ trDoc \in {d \in SampleDocs : Len(d.content[1].content) = 1}
  /\ trSteps = <<>>
  /\ trDocs = <<>>
  /\ trMapping = Transform(trDoc).mapping
  /\ trResult = NoCall
  /\ IdleCM /\ IdleFrag /\ IdleRepl /\ IdleStep /\ IdleLater

\* The Transform that the variables hold.
Tr == [doc |-> trDoc, steps |-> trSteps, docs |-> trDocs, mapping |-> trMapping]

\* The call has returned r.result, or has thrown r.result.err.
Returns(r) ==
  /\ trDoc' = r.tr.doc
  /\ trSteps' = r.tr.steps
  /\ trDocs' = r.tr.docs
  /\ trMapping' = r.tr.mapping
  /\ trResult' = [failed |-> r.result.failed, err |-> r.result.err]
  /\ UNCHANGED <<schema, cmVars, fragVars, replVars, stepVars, laterVars>>

\* tr.maybeStep(st)
MaybeStep(st) ==
  /\ Len(trSteps) < MaxSteps
  /\ st.from <= st.to /\ st.gapFrom <= st.gapTo
  /\ Returns(maybeStep(Tr, st))

\* tr.step(st)
Step(st) ==
  /\ Len(trSteps) < MaxSteps
  /\ st.from <= st.to /\ st.gapFrom <= st.gapTo
  /\ Returns(transformStep(Tr, st))

Next ==
  \/ \E st \in TransformSteps(trDoc) : MaybeStep(st)
  \/ \E st \in TransformSteps(trDoc) : Step(st)

Spec == Init /\ [][Next]_vars

\* ------------------------------------------------ constructing fragments
\* Fragment.from(nodes) for an array of nodes.
fragmentFrom(nodes) == fromArray(nodes)

\* The nodes that the fragment run builds from: the texts a and b, the
\* text a with the mark em, and the leaf br.
FragNodes ==
  {TextNode(<<"a">>, <<>>), TextNode(<<"b">>, <<>>), TextNode(<<"a">>, <<"em">>),
   Node("br", {}, <<>>, <<>>)}

MaxArray == 2

MaxFragSize == 3

FragArrays == WordsUpTo(FragNodes, MaxArray)

InitFrag ==
  /\ schema = contentMatch
  /\ frag = <<>>
  /\ fragOp = "empty"
  /\ IdleCM /\ IdleRepl /\ IdleStep /\ IdleTr /\ IdleLater

\* The entry point op has produced the fragment f.
Built(op, f) ==
  /\ size(f) <= MaxFragSize
  /\ frag' = f
  /\ fragOp' = op
  /\ UNCHANGED <<schema, cmVars, replVars, stepVars, trVars, laterVars>>

FragFrom(nodes) == Built("from", fragmentFrom(nodes))

FragFromArray(array) == Built("fromArray", fromArray(array))

FragFromJSON(value) == Built("fromJSON", fromJSON(value))

FragAppend(other) == Built("append", append(frag, other))

FragCut(from, to) == Built("cut", cut(frag, from, to))

FragReplaceChild(index, nd) ==
  /\ index < Len(frag)
  /\ Built("replaceChild", replaceChild(frag, index, nd))

FragAddToStart(nd) == Built("addToStart", addToStart(frag, nd))

FragAddToEnd(nd) == Built("addToEnd", addToEnd(frag, nd))

\* The fragment as the content of the paragraph of a document, and the
\* content of that paragraph after doc.replace(from, to, slice).
FragReplace(from, to, sl) ==
  LET d == create("doc", {}, <<Node("paragraph", computeAttrs("paragraph", {}), frag, <<>>)>>,
                  <<>>)
      Replaced(r) == r.err = NoErr /\ Built("replace", r.node.content[1].content)
  IN Replaced(nodeReplace(d, from + 1, to + 1, sl))

NextFrag ==
  \/ \E nodes \in FragArrays : FragFrom(nodes)
  \/ \E array \in FragArrays : FragFromArray(array)
  \/ \E value \in FragArrays : FragFromJSON(value)
  \/ \E array \in FragArrays : FragAppend(fromArray(array))
  \/ \E to \in 0..size(frag) : \E from \in 0..to : FragCut(from, to)
  \/ \E index \in 0..MaxFragSize, nd \in FragNodes : FragReplaceChild(index, nd)
  \/ \E nd \in FragNodes : FragAddToStart(nd)
  \/ \E nd \in FragNodes : FragAddToEnd(nd)
  \/ \E to \in 0..size(frag), nd \in FragNodes :
       \E from \in 0..to : FragReplace(from, to, Slice(fragmentFrom(<<nd>>), 0, 0))

SpecFrag == InitFrag /\ [][NextFrag]_vars

\* ------------------------------------------------------- position cache
\* resolveCache is the WeakMap from document instances to their cache; a
\* document instance is named by its index in CacheDocs.  A cache is
\* [elts, i]; an instance without an entry has NoCache.

resolveCacheSize == 12

NoCache == [elts |-> <<>>, i |-> -1]

ResolveCache == [elts |-> <<>>, i |-> 0]

\* The first element of the cache with that pos, else 0.
cachedAt(elts, pos) ==
  IF \E k \in DOMAIN elts : elts[k].pos = pos
  THEN CHOOSE k \in DOMAIN elts : elts[k].pos = pos /\ \A j \in 1..(k-1) : elts[j].pos # pos
  ELSE 0

\* resolveCached keeping one cache for all the documents.
resolveCachedShared(caches, docs, d, pos) ==
  LET cache == IF caches[1] = NoCache THEN ResolveCache ELSE caches[1]
      hit == cachedAt(cache.elts, pos)
      Store(rp) ==
        [caches |-> [caches EXCEPT ![1] =
                       [elts |-> IF cache.i + 1 > Len(cache.elts)
                                 THEN Append(cache.elts, rp)
                                 ELSE [cache.elts EXCEPT ![cache.i + 1] = rp],
                        i |-> (cache.i + 1) % resolveCacheSize]],
         result |-> rp]
  IN IF hit # 0 THEN [caches |-> caches, result |-> cache.elts[hit]]
     ELSE Store(resolve(docs[d], pos))

\* resolveCached never reusing a slot.
resolveCachedGrowing(caches, docs, d, pos) ==
  LET cache == IF caches[d] = NoCache THEN ResolveCache ELSE caches[d]
      hit == cachedAt(cache.elts, pos)
      Store(rp) ==
        [caches |-> [caches EXCEPT ![d] = [elts |-> Append(cache.elts, rp), i |-> cache.i]],
         result |-> rp]
  IN IF hit # 0 THEN [caches |-> caches, result |-> cache.elts[hit]]
     ELSE Store(resolve(docs[d], pos))

\* ResolvedPos.resolveCached(doc, pos): [caches, result].  Slot cache.i of
\* elts (0-based) is index cache.i + 1 here.
resolveCached(caches, docs, d, pos) ==
  LET cache == IF caches[d] = NoCache THEN ResolveCache ELSE caches[d]
      hit == cachedAt(cache.elts, pos)
      Store(rp) ==
        [caches |-> [caches EXCEPT ![d] =
                       [elts |-> IF cache.i + 1 > Len(cache.elts)
                                 THEN Append(cache.elts, rp)
                                 ELSE [cache.elts EXCEPT ![cache.i + 1] = rp],
                        i |-> (cache.i + 1) % resolveCacheSize]],
         result |-> rp]
  IN IF hit # 0 THEN [caches |-> caches, result |-> cache.elts[hit]]
     ELSE Store(resolve(docs[d], pos))

\* The document instances of the cache run: a document with more positions
\* than the cache has slots, and a later version of its first paragraph.
CacheDocs ==
  << schemaNode("doc", {},
       <<schemaNode("paragraph", {}, <<schemaText(<<"a", "b">>, <<>>)>>),
         schemaNode("paragraph", {}, <<schemaText(<<"a", "b">>, <<>>)>>),
         schemaNode("paragraph", {}, <<schemaText(<<"a", "b">>, <<>>)>>)>>),
     schemaNode("doc", {},
       <<schemaNode("blockquote", {},
           <<schemaNode("paragraph", {}, <<schemaText(<<"a">>, <<>>)>>)>>)>>) >>

NotResolved == [called |-> FALSE, doc |-> 0, pos |-> 0, rp |-> NullPos]

InitCache ==
  /\ schema = contentMatch
  /\ resolveCache = [d \in DOMAIN CacheDocs |-> NoCache]
  /\ rcResult = NotResolved
  /\ IdleCore /\ IdleQuery /\ IdleMerge /\ IdleMark /\ IdleSlice /\ IdleOp /\ IdleJoin /\ IdleMap /\ IdleApply

\* The first position of the document that its cache does not hold.
FirstUncached(d) ==
  LET free == {p \in 0..size(CacheDocs[d].content) : cachedAt(resolveCache[d].elts, p) = 0}
  IN IF free = {} THEN -1 ELSE CHOOSE p \in free : \A q \in free : p <= q

\* CacheDocs[d].resolve(pos), for a position that the cache holds or the
\* first one that it does not hold.
Resolve(d, pos) ==
  /\ cachedAt(resolveCache[d].elts, pos) # 0 \/ pos = FirstUncached(d)
  /\ LET Done(r) ==
           /\ resolveCache' = r.caches
           /\ rcResult' = [called |-> TRUE, doc |-> d, pos |-> pos, rp |-> r.result]
     IN Done(resolveCached(resolveCache, CacheDocs, d, pos))
  /\ UNCHANGED <<schema, coreVars, queryVars, mergeVars, markVars, sliceVars, opVars,
                 joinVars, mapVars, applyVars>>

NextCache == \E d \in DOMAIN CacheDocs : \E pos \in 0..size(CacheDocs[d].content) : Resolve(d, pos)

SpecCache == InitCache /\ [][NextCache]_vars

\* -------------------------------------------- state kept between queries
\* A ContentMatch is named by <<type, state>>: state (0-based) of the
\* automaton of that node type.  A wrapping is [null, types]: null for no
\* wrapping, types from the outermost wrapper inwards.

Wrapping(types) == [null |-> FALSE, types |-> types]

NoWrapping == [null |-> TRUE, types |-> <<>>]

hasRequiredAttrs(type) == TypeNamed(SchemaTypes, type).required

\* The Schema constructor's contentExprCache: types with the same content
\* expression share one ContentMatch, named here by the first such type.
matchOf(type) ==
  LET same == {i \in DOMAIN SchemaTypes :
                 SchemaTypes[i].content = TypeNamed(SchemaTypes, type).content}
  IN SchemaTypes[CHOOSE i \in same : \A j \in same : i <= j].name

RECURSIVE wrapActive(_, _, _), wrapEdges(_, _, _, _, _)

\* computeWrapping: the loop over the edges of current.match; [active, seen].
wrapEdges(current, edges, i, active, seen) ==
  IF i > Len(edges) THEN [active |-> active, seen |-> seen]
  ELSE LET type == edges[i].type
           next == schema[current.match[1]][edges[i].next + 1]
       IN IF /\ ~isLeaf(type) /\ ~hasRequiredAttrs(type) /\ type \notin seen
             /\ (current.types = <<>> \/ next.validEnd)
          THEN wrapEdges(current, edges, i + 1,
                         Append(active, [match |-> <<matchOf(type), 0>>,
                                         types |-> Append(current.types, type)]),
                         seen \cup {type})
          ELSE wrapEdges(current, edges, i + 1, active, seen)

\* computeWrapping: the loop over the active list.
wrapActive(target, active, seen) ==
  IF active = <<>> THEN NoWrapping
  ELSE LET current == Head(active)
           d == schema[current.match[1]]
           Grown(r) == wrapActive(target, r.active, r.seen)
       IN IF matchType(d, current.match[2], target) # NoState
          THEN Wrapping(current.types)
          ELSE Grown(wrapEdges(current, d[current.match[2] + 1].next, 1, Tail(active), seen))

\* ContentMatch.computeWrapping(target)
computeWrapping(match, target) ==
  wrapActive(target, <<[match |-> match, types |-> <<>>]>>, {})

\* ContentMatch.findWrapping(target) on the match with that wrapCache:
\* [wrapCache, result].
findWrapping(cache, match, target) ==
  LET hit == IF \E k \in DOMAIN cache : cache[k].target = target
             THEN CHOOSE k \in DOMAIN cache :
                    cache[k].target = target /\ \A j \in 1..(k-1) : cache[j].target # target
             ELSE 0
      Pushed(computed) ==
        [wrapCache |-> Append(cache, [target |-> target, computed |-> computed]),
         result |-> computed]
  IN IF hit # 0 THEN [wrapCache |-> cache, result |-> cache[hit].computed]
     ELSE Pushed(computeWrapping(match, target))

\* retIndex: the one object that every findIndex call fills and returns.
retIndex(fi) == [index |-> fi.index, offset |-> fi.offset]

\* The ContentMatch objects of the schema.
Matches ==
  {k \in SchemaNames \X (0..1) : matchOf(k[1]) = k[1] /\ k[2] < Len(contentMatch[k[1]])}

\* The matches and target types that the run asks wrappings of.
QueryMatches == {<<"doc", 0>>, <<"paragraph", 0>>}

QueryTargets == {"text", "paragraph", "blockquote"}

QueryFragments == {d.content : d \in SampleDocs} \cup {d.content[1].content : d \in SampleDocs}

NoQuery == [query |-> "none", wrapping |-> NoWrapping]

InitQuery ==
  /\ schema = contentMatch
  /\ wrapCache = [k \in Matches |-> <<>>]
  /\ found = [index |-> 0, offset |-> 0]
  /\ qResult = NoQuery
  /\ IdleCore /\ IdleCache /\ IdleMerge /\ IdleMark /\ IdleSlice /\ IdleOp /\ IdleJoin /\ IdleMap /\ IdleApply

\* match.findWrapping(target)
FindWrapping(match, target) ==
  /\ LET Done(r) ==
           /\ wrapCache' = [wrapCache EXCEPT ![match] = r.wrapCache]
           /\ qResult' = [query |-> "findWrapping", wrapping |-> r.result]
     IN Done(findWrapping(wrapCache[match], match, target))
  /\ UNCHANGED <<found, schema, coreVars, cacheVars, mergeVars, markVars, sliceVars,
                 opVars, joinVars, mapVars, applyVars>>

\* content.findIndex(pos): the caller holds the object found.
FindIndex(content, pos) ==
  /\ found' = retIndex(findIndex(content, pos))
  /\ qResult' = [query |-> "findIndex", wrapping |-> NoWrapping]
  /\ UNCHANGED <<wrapCache, schema, coreVars, cacheVars, mergeVars, markVars, sliceVars,
                 opVars, joinVars, mapVars, applyVars>>

NextQuery ==
  \/ \E match \in QueryMatches, target \in QueryTargets : FindWrapping(match, target)
  \/ \E content \in QueryFragments : \E pos \in 0..size(content) : FindIndex(content, pos)

SpecQuery == InitQuery /\ [][NextQuery]_vars

\* --------------------------------------------------------- merging steps

NoStep == [null |-> TRUE, step |-> DocAttrStep("", 0)]

\* A merge that forgets the range the second step replaced.
mergeKeepingEnd(step, other) ==
  IF other.structure \/ step.structure THEN NoStep
  ELSE IF /\ step.from + sliceSize(step.slice) = other.from
          /\ step.slice.openEnd = 0 /\ other.slice.openStart = 0
  THEN [null |-> FALSE,
        step |-> ReplaceStep(step.from, step.to,
                   Slice(append(step.slice.content, other.slice.content),
                         step.slice.openStart, other.slice.openEnd), FALSE)]
  ELSE NoStep

\* ReplaceStep.merge(other) for two replace steps: [null, step].
merge(step, other) ==
  LET Merged(from, to, first, second) ==
        [null |-> FALSE,
         step |-> ReplaceStep(from, to,
                    IF sliceSize(first) + sliceSize(second) = 0 THEN SliceEmpty
                    ELSE Slice(append(first.content, second.content),
                               first.openStart, second.openEnd),
                    step.structure)]
  IN IF other.stepType # "replace" \/ other.structure \/ step.structure THEN NoStep
     ELSE IF /\ step.from + sliceSize(step.slice) = other.from
             /\ step.slice.openEnd = 0 /\ other.slice.openStart = 0
     THEN Merged(step.from, step.to + (other.to - other.from), step.slice, other.slice)
     ELSE IF /\ other.to = step.from
             /\ step.slice.openStart = 0 /\ other.slice.openEnd = 0
     THEN Merged(other.from, step.to, other.slice, step.slice)
     ELSE NoStep

MergeDocs == {d \in SampleDocs : Len(d.content) > 1}

MergeSlices ==
  LET px == schemaNode("paragraph", {}, <<schemaText(<<"x">>, <<>>)>>)
  IN {SliceEmpty,
      Slice(<<schemaText(<<"x">>, <<>>)>>, 0, 0),
      Slice(<<px>>, 0, 0), Slice(<<px>>, 1, 1), Slice(<<px>>, 1, 0), Slice(<<px>>, 0, 1)}

\* The replace steps on a document: every range with every slice, and the
\* structure steps that delete.
MergeSteps(d) ==
  LET last == size(d.content)
  IN {ReplaceStep(from, to, sl, FALSE) : from \in 0..last, to \in 0..last, sl \in MergeSlices}
     \cup {ReplaceStep(from, to, SliceEmpty, TRUE) : from \in 0..last, to \in 0..last}

InitMerge ==
  /\ schema = contentMatch
  /\ mDoc \in MergeDocs
  /\ mStep1 \in {st \in MergeSteps(mDoc) : st.from <= st.to}
  /\ mStep2 = NoStep.step
  /\ mFirst = NotApplied
  /\ mSecond = NotApplied
  /\ mMerged = NoStep
  /\ mApplied = NotApplied
  /\ IdleCore /\ IdleCache /\ IdleQuery /\ IdleMark /\ IdleSlice /\ IdleOp /\ IdleJoin /\ IdleMap /\ IdleApply

\* The caller picks the second step for the document that the first made.
MergeChoose(st) ==
  /\ Succeeded(mFirst) /\ mStep2 = NoStep.step
  /\ st.from <= st.to /\ st.to <= size(mFirst.doc.content)
  /\ mStep2' = st
  /\ UNCHANGED <<mDoc, mStep1, mFirst, mSecond, mMerged, mApplied,
                 schema, coreVars, cacheVars, queryVars, markVars, sliceVars, opVars,
                 joinVars, mapVars, applyVars>>

\* step.apply(doc) of the step that is due: the first on mDoc, the second
\* on the result of the first, the merged one on mDoc.
MergeApply ==
  LET due == IF ~mFirst.called THEN 1
             ELSE IF mStep2 # NoStep.step /\ ~mSecond.called THEN 2
             ELSE IF ~mMerged.null /\ ~mApplied.called THEN 3
             ELSE 0
      Apply(r) ==
        /\ mFirst' = IF due = 1 THEN r ELSE mFirst
        /\ mSecond' = IF due = 2 THEN r ELSE mSecond
        /\ mApplied' = IF due = 3 THEN r ELSE mApplied
  IN /\ due # 0
     /\ Apply(Called(apply(IF due = 1 THEN mStep1 ELSE IF due = 2 THEN mStep2 ELSE mMerged.step,
                           IF due = 2 THEN mFirst.doc ELSE mDoc)))
     /\ UNCHANGED <<mDoc, mStep1, mStep2, mMerged, schema, coreVars, cacheVars, queryVars,
                 markVars, sliceVars, opVars, joinVars, mapVars, applyVars>>

\* mStep1.merge(mStep2), for two steps that applied one after the other.
Merge ==
  /\ Succeeded(mSecond) /\ mMerged = NoStep /\ ~mApplied.called
  /\ mMerged' = merge(mStep1, mStep2)
  /\ mMerged' # NoStep
  /\ UNCHANGED <<mDoc, mStep1, mStep2, mFirst, mSecond, mApplied,
                 schema, coreVars, cacheVars, queryVars, markVars, sliceVars, opVars,
                 joinVars, mapVars, applyVars>>

NextMerge ==
  \/ \E st \in MergeSteps(mFirst.doc) : MergeChoose(st)
  \/ MergeApply
  \/ Merge

SpecMerge == InitMerge /\ [][NextMerge]_vars

\* ------------------------------------------------------------ mark sets

\* The mark types in schema order; excludes is the spec's string split into
\* names, or NoTerm when the spec has none.  A mark is [type, attrs].
MarkSpecs ==
  << [name |-> "em", excludes |-> <<NoTerm>>],
     [name |-> "link", excludes |-> <<NoTerm>>],
     [name |-> "code", excludes |-> <<"_">>],
     [name |-> "comment", excludes |-> <<>>] >>

\* MarkType.rank, counted from 0 in schema order.
rank(type) == (CHOOSE i \in DOMAIN MarkSpecs : MarkSpecs[i].name = type) - 1

gatherMarks(names) ==
  {MarkSpecs[i].name : i \in {j \in DOMAIN MarkSpecs :
     \E k \in DOMAIN names : names[k] = MarkSpecs[j].name \/ names[k] = "_"}}

\* MarkType.excluded, as the Schema constructor fills it in.
excluded(type) ==
  LET excl == MarkSpecs[rank(type) + 1].excludes
  IN IF excl = <<NoTerm>> THEN {type}
     ELSE IF excl = <<>> THEN {}
     ELSE gatherMarks(excl)

excludes(type, other) == other \in excluded(type)

Mark(type, attrs) == [type |-> type, attrs |-> attrs]

MarkNone == <<>>

\* mark.addToSet(set): the loop from index i on, with the copy made so
\* far (copied is FALSE while there is none) and whether the mark was
\* placed.
RECURSIVE addToSetFrom(_, _, _, _, _, _)
addToSetFrom(mark, set, i, copied, made, placed) ==
  IF i > Len(set)
  THEN LET whole == IF copied THEN made ELSE set
       IN IF placed THEN whole ELSE Append(whole, mark)
  ELSE LET other == set[i]
           started == IF copied THEN made ELSE SubSeq(set, 1, i - 1)
       IN IF mark = other THEN set
          ELSE IF excludes(mark.type, other.type)
          THEN addToSetFrom(mark, set, i + 1, TRUE, started, placed)
          ELSE IF excludes(other.type, mark.type) THEN set
          ELSE IF ~placed /\ rank(other.type) > rank(mark.type)
          THEN addToSetFrom(mark, set, i + 1, TRUE, Append(Append(started, mark), other), TRUE)
          ELSE addToSetFrom(mark, set, i + 1, copied,
                            IF copied THEN Append(made, other) ELSE made, placed)

addToSet(mark, set) == addToSetFrom(mark, set, 1, FALSE, <<>>, FALSE)

\* copy.sort((a, b) => a.type.rank - b.type.rank): a stable sort.
RECURSIVE sortByRank(_)
sortByRank(marks) ==
  IF marks = <<>> THEN <<>>
  ELSE LET rest == sortByRank(Tail(marks))
           before == SelectSeq(rest, LAMBDA x : rank(x.type) < rank(Head(marks).type))
           after == SelectSeq(rest, LAMBDA x : rank(x.type) >= rank(Head(marks).type))
       IN before \o <<Head(marks)>> \o after

\* Mark.setFrom(marks) of an array of marks.
setFrom(marks) == IF Len(marks) = 0 THEN MarkNone ELSE sortByRank(marks)

MaxMarks == 3

Marks ==
  {Mark("em", {}), Mark("code", {})}
  \cup {Mark(t, {<<"id", v>>}) : t \in {"link", "comment"}, v \in 1..2}

MarkArrays == UNION {[1..n -> Marks] : n \in 0..MaxMarks}

InitMark ==
  /\ schema = contentMatch
  /\ markSet = MarkNone
  /\ IdleCore /\ IdleCache /\ IdleQuery /\ IdleMerge /\ IdleSlice /\ IdleOp /\ IdleJoin /\ IdleMap /\ IdleApply

\* markSet = mark.addToSet(markSet)
AddToSet(mark) ==
  /\ markSet' = addToSet(mark, markSet)
  /\ UNCHANGED <<schema, coreVars, cacheVars, queryVars, mergeVars, sliceVars, opVars,
                 joinVars, mapVars, applyVars>>

\* markSet = Mark.setFrom(marks)
SetFrom(marks) ==
  /\ markSet' = setFrom(marks)
  /\ UNCHANGED <<schema, coreVars, cacheVars, queryVars, mergeVars, sliceVars, opVars,
                 joinVars, mapVars, applyVars>>

NextMark ==
  \/ \E mark \in Marks : AddToSet(mark)
  \/ \E marks \in MarkArrays : SetFrom(marks)

SpecMark == InitMark /\ [][NextMark]_vars

\* --------------------------------------------------------- making slices

\* The number of non-leaf nodes down the first children of a fragment,
\* and down the last ones: the loops of Slice.maxOpen (no type of the
\* schema is isolating).
RECURSIVE openDepthStart(_), openDepthEnd(_)

openDepthStart(fragment) ==
  IF fragment = <<>> \/ isLeaf(fragment[1].type) THEN 0
  ELSE 1 + openDepthStart(fragment[1].content)

openDepthEnd(fragment) ==
  IF fragment = <<>> \/ isLeaf(fragment[Len(fragment)].type) THEN 0
  ELSE 1 + openDepthEnd(fragment[Len(fragment)].content)

\* Slice.maxOpen(fragment)
maxOpen(fragment) == Slice(fragment, openDepthStart(fragment), openDepthEnd(fragment))

\* Slice.fromJSON(schema, json) of [null, content, openStart, openEnd],
\* where an open depth of 0 is also the absent one.
sliceFromJSON(json) ==
  IF json.null THEN SliceEmpty
  ELSE Slice(fromJSON(json.content), json.openStart, json.openEnd)

MaxOpen == 2

MaxSliceSize == 5

SliceFragments ==
  {<<>>, <<schemaText(<<"x">>, <<>>)>>, <<create("br", {}, <<>>, <<>>)>>,
   <<create("paragraph", {}, <<>>, <<>>)>>,
   <<schemaNode("paragraph", {}, <<schemaText(<<"x">>, <<>>)>>)>>,
   <<schemaNode("blockquote", {}, <<schemaNode("paragraph", {}, <<schemaText(<<"x">>, <<>>)>>)>>),
     create("paragraph", {}, <<>>, <<>>)>>}

SliceJSON ==
  LET text == [type |-> "text", attrs |-> {}, marks |-> <<>>, content |-> <<>>, text |-> <<"x">>]
      para == [type |-> "paragraph", attrs |-> {}, marks |-> <<>>, text |-> <<>>,
               content |-> <<text>>]
  IN {[null |-> TRUE, content |-> <<>>, openStart |-> 0, openEnd |-> 0]}
     \cup {[null |-> FALSE, content |-> c, openStart |-> s, openEnd |-> e] :
             c \in {<<>>, <<text>>, <<para>>}, s \in 0..MaxOpen, e \in 0..MaxOpen}

Made(sl) == [err |-> NoErr, slice |-> sl]

InitSlice ==
  /\ schema = contentMatch
  /\ slc = Made(SliceEmpty)
  /\ IdleCore /\ IdleCache /\ IdleQuery /\ IdleMerge /\ IdleMark /\ IdleOp /\ IdleJoin /\ IdleMap /\ IdleApply

\* new Slice(content, openStart, openEnd)
SliceNew(content, openStart, openEnd) ==
  /\ slc' = Made(Slice(content, openStart, openEnd))
  /\ UNCHANGED <<schema, coreVars, cacheVars, queryVars, mergeVars, markVars, opVars,
                 joinVars, mapVars, applyVars>>

\* Slice.fromJSON(schema, json)
SliceFromJSON(json) ==
  /\ slc' = Made(sliceFromJSON(json))
  /\ UNCHANGED <<schema, coreVars, cacheVars, queryVars, mergeVars, markVars, opVars,
                 joinVars, mapVars, applyVars>>

\* Slice.maxOpen(fragment)
SliceMaxOpen(fragment) ==
  /\ slc' = Made(maxOpen(fragment))
  /\ UNCHANGED <<schema, coreVars, cacheVars, queryVars, mergeVars, markVars, opVars,
                 joinVars, mapVars, applyVars>>

\* d.slice(from, to)
NodeSlice(d, from, to) ==
  /\ from <= to
  /\ slc' = Made(slice(d, from, to))
  /\ UNCHANGED <<schema, coreVars, cacheVars, queryVars, mergeVars, markVars, opVars,
                 joinVars, mapVars, applyVars>>

\* slc.insertAt(pos, fragment), pos within the slice.
SliceInsertAt(pos, fragment) ==
  /\ slc.err = NoErr
  /\ pos + slc.slice.openStart <= size(slc.slice.content) - slc.slice.openEnd
  /\ size(slc.slice.content) + size(fragment) <= MaxSliceSize
  /\ slc' = Made(insertAt(slc.slice, pos, fragment))
  /\ UNCHANGED <<schema, coreVars, cacheVars, queryVars, mergeVars, markVars, opVars,
                 joinVars, mapVars, applyVars>>

\* slc.removeBetween(from, to), both within the slice.
SliceRemoveBetween(from, to) ==
  /\ slc.err = NoErr
  /\ from <= to
  /\ to + slc.slice.openStart <= size(slc.slice.content) - slc.slice.openEnd
  /\ slc' = removeBetween(slc.slice, from, to)
  /\ UNCHANGED <<schema, coreVars, cacheVars, queryVars, mergeVars, markVars, opVars,
                 joinVars, mapVars, applyVars>>

NextSlice ==
  \/ \E content \in SliceFragments, openStart, openEnd \in 0..MaxOpen :
       SliceNew(content, openStart, openEnd)
  \/ \E json \in SliceJSON : SliceFromJSON(json)
  \/ \E fragment \in SliceFragments : SliceMaxOpen(fragment)
  \/ \E d \in SampleDocs, from, to \in 0..MaxSliceSize :
       size(d.content) <= MaxSliceSize /\ to <= size(d.content) /\ NodeSlice(d, from, to)
  \/ \E pos \in 0..MaxSliceSize, fragment \in {f \in SliceFragments : size(f) = 1} :
       SliceInsertAt(pos, fragment)
  \/ \E from, to \in 0..MaxSliceSize : SliceRemoveBetween(from, to)

SpecSlice == InitSlice /\ [][NextSlice]_vars

\* --------------------------------------------------- splitting and lifting

\* Node.contentMatchAt(index); NoState for a node with invalid content,
\* where the source throws.
contentMatchAt(nd, index) == matchFragment(schema[nd.type], 0, TypesOf(nd.content), 0, index)

\* Node.canReplace(from, to, replacement)
canReplace(nd, from, to, replacement) ==
  LET Two(two) ==
        /\ two # NoState
        /\ schema[nd.type][two + 1].validEnd
        /\ \A i \in DOMAIN replacement : allowsMarks(nd.type, replacement[i].marks)
      One(one) == Two(matchFragment(schema[nd.type], one, TypesOf(nd.content), to,
                                    Len(nd.content)))
  IN One(matchFragment(schema[nd.type], contentMatchAt(nd, from), TypesOf(replacement), 0,
                       Len(replacement)))

\* Node.canReplaceWith(from, to, type)
canReplaceWith(nd, from, to, type) ==
  LET End(end) == end # NoState /\ schema[nd.type][end + 1].validEnd
      Start(start) ==
        start # NoState /\
        End(matchFragment(schema[nd.type], matchType(schema[nd.type], start, type),
                          TypesOf(nd.content), to, Len(nd.content)))
  IN Start(contentMatchAt(nd, from))

\* Fragment.cutByIndex(from, to)
cutByIndex(content, from, to) == SubSeq(content, from + 1, to)

\* Node.check(): the content of the node and of every node below it is
\* valid (attributes are computed from the type, a node has one mark at
\* most).
RECURSIVE check(_)
check(nd) ==
  /\ validContent(nd.type, nd.content)
  /\ \A i \in DOMAIN nd.content : check(nd.content[i])

\* ResolvedPos.before(depth) and after(depth), depth > 0.
posBefore(rp, depth) == IF depth = posDepth(rp) + 1 THEN rp.pos ELSE rp.path[depth].offset

posAfter(rp, depth) ==
  IF depth = posDepth(rp) + 1 THEN rp.pos
  ELSE rp.path[depth].offset + nodeSize(posNode(rp, depth))

\* typesAfter is a sequence of type names, NoTerm where the array holds
\* null; the empty sequence is also the argument left out.
typeAfter(typesAfter, i) ==
  IF i + 1 \in DOMAIN typesAfter THEN typesAfter[i + 1] ELSE NoTerm

\* canSplit(doc, pos, depth, typesAfter)
canSplit(doc, pos, depth, typesAfter) ==
  LET At(rpos) ==
        LET base == posDepth(rpos) - depth
            parent == posNode(rpos, posDepth(rpos))
            innerType == IF typeAfter(typesAfter, Len(typesAfter) - 1) # NoTerm
                         THEN typeAfter(typesAfter, Len(typesAfter) - 1) ELSE parent.type
            RECURSIVE Outer(_, _)
            Outer(d, i) ==
              IF d <= base
              THEN canReplaceWith(posNode(rpos, base), indexAfter(rpos, base),
                                  indexAfter(rpos, base),
                                  IF typeAfter(typesAfter, 0) # NoTerm
                                  THEN typeAfter(typesAfter, 0)
                                  ELSE posNode(rpos, base + 1).type)
              ELSE LET nd == posNode(rpos, d)
                       index == posIndex(rpos, d)
                       rest == cutByIndex(nd.content, index, Len(nd.content))
                       overrideChild == typeAfter(typesAfter, i + 1)
                       after == IF typeAfter(typesAfter, i) # NoTerm
                                THEN typeAfter(typesAfter, i) ELSE nd.type
                       Checked(nowhere, from, type, content) ==
                         canReplace(nd, from, Len(nd.content), nowhere)
                         /\ validContent(type, content)
                   IN /\ Checked(<<>>, index + 1, after,
                                 IF overrideChild # NoTerm
                                 THEN replaceChild(rest, 0,
                                                   create(overrideChild, {}, <<>>, <<>>))
                                 ELSE rest)
                      /\ Outer(d - 1, i - 1)
        IN /\ base >= 0
           /\ canReplace(parent, posIndex(rpos, posDepth(rpos)), Len(parent.content), <<>>)
           /\ validContent(innerType,
                           cutByIndex(parent.content, posIndex(rpos, posDepth(rpos)),
                                      Len(parent.content)))
           /\ Outer(posDepth(rpos) - 1, depth - 2)
  IN At(resolve(doc, pos))

TypeError == "TypeError"

\* split(tr, pos, depth, typesAfter) up to its call of tr.step: [err,
\* step], the step it hands over, or the TypeError thrown on reading a
\* node above the document.
split(doc, pos, depth, typesAfter) ==
  LET At(rpos) ==
        LET RECURSIVE Sides(_, _, _, _)
            Sides(d, i, before, after) ==
              IF d <= posDepth(rpos) - depth THEN append(before, after)
              ELSE Sides(d - 1, i - 1, <<copy(posNode(rpos, d), before)>>,
                         <<IF typeAfter(typesAfter, i) # NoTerm
                           THEN create(typeAfter(typesAfter, i), {}, after, <<>>)
                           ELSE copy(posNode(rpos, d), after)>>)
        IN IF posDepth(rpos) - depth < -1 THEN [err |-> TypeError, step |-> NoStep.step]
           ELSE [err |-> NoErr,
                 step |-> ReplaceStep(pos, pos,
                                      Slice(Sides(posDepth(rpos), depth - 1, <<>>, <<>>),
                                            depth, depth), TRUE)]
  IN At(resolve(doc, pos))

\* A NodeRange is [from, to, depth] over resolved positions; NoRange is
\* null.
NodeRange(rfrom, rto, depth) == [from |-> rfrom, to |-> rto, depth |-> depth]

NoRange == NodeRange(NullPos, NullPos, -1)

\* rfrom.blockRange(rto), rfrom.pos <= rto.pos
blockRange(rfrom, rto) ==
  LET RECURSIVE Around(_)
      Around(d) ==
        IF d < 0 THEN NoRange
        ELSE IF rto.pos <= posEnd(rfrom, d) THEN NodeRange(rfrom, rto, d)
        ELSE Around(d - 1)
  IN Around(posDepth(rfrom)
            - (IF inlineContent(posNode(rfrom, posDepth(rfrom)).type) \/ rfrom.pos = rto.pos
               THEN 1 ELSE 0))

\* canCut(node, start, end)
canCut(nd, start, end) ==
  /\ start = 0 \/ canReplace(nd, start, Len(nd.content), <<>>)
  /\ end = Len(nd.content) \/ canReplace(nd, 0, end, <<>>)

NoDepth == -1

\* liftTarget(range): a depth, or NoDepth for null.
liftTarget(range) ==
  LET content == cutByIndex(posNode(range.from, range.depth).content,
                            posIndex(range.from, range.depth), indexAfter(range.to, range.depth))
      RECURSIVE Up(_)
      Up(depth) ==
        LET nd == posNode(range.from, depth)
            index == posIndex(range.from, depth)
            endIndex == indexAfter(range.to, depth)
        IN IF depth < range.depth /\ canReplace(nd, index, endIndex, content) THEN depth
           ELSE IF depth = 0 \/ ~canCut(nd, index, endIndex) THEN NoDepth
           ELSE Up(depth - 1)
  IN Up(range.depth)

\* A lift that never splits the nodes around the range.
liftWithoutSplitting(range, target) ==
  [err |-> NoErr,
   step |-> ReplaceAroundStep(posBefore(range.from, range.depth + 1) - (range.depth - target),
                              posAfter(range.to, range.depth + 1) + (range.depth - target),
                              posBefore(range.from, range.depth + 1),
                              posAfter(range.to, range.depth + 1),
                              SliceEmpty, 0, TRUE)]

\* lift(tr, range, target) up to its call of tr.step: [err, step]
lift(range, target) ==
  LET gapStart == posBefore(range.from, range.depth + 1)
      gapEnd == posAfter(range.to, range.depth + 1)
      RECURSIVE Before(_, _, _, _, _), After(_, _, _, _, _)
      Before(d, splitting, before, openStart, start) ==
        IF d <= target THEN [content |-> before, open |-> openStart, pos |-> start]
        ELSE IF splitting \/ posIndex(range.from, d) > 0
        THEN Before(d - 1, TRUE, <<copy(posNode(range.from, d), before)>>, openStart + 1, start)
        ELSE Before(d - 1, FALSE, before, openStart, start - 1)
      After(d, splitting, after, openEnd, end) ==
        IF d <= target THEN [content |-> after, open |-> openEnd, pos |-> end]
        ELSE IF splitting \/ posAfter(range.to, d + 1) < posEnd(range.to, d)
        THEN After(d - 1, TRUE, <<copy(posNode(range.to, d), after)>>, openEnd + 1, end)
        ELSE After(d - 1, FALSE, after, openEnd, end + 1)
      Around(b, a) ==
        [err |-> NoErr,
         step |-> ReplaceAroundStep(b.pos, a.pos, gapStart, gapEnd,
                                    Slice(append(b.content, a.content), b.open, a.open),
                                    size(b.content) - b.open, TRUE)]
  IN Around(Before(range.depth, FALSE, <<>>, 0, gapStart),
            After(range.depth, FALSE, <<>>, 0, gapEnd))

\* The documents split and lifted: a blockquote of two paragraphs, a
\* paragraph before a blockquote, and a blockquote inside a blockquote.
OpDocs ==
  LET pa == schemaNode("paragraph", {}, <<schemaText(<<"a">>, <<>>)>>)
      pb == schemaNode("paragraph", {}, <<schemaText(<<"b">>, <<>>)>>)
  IN {schemaNode("doc", {}, <<schemaNode("blockquote", {}, <<pa, pb>>)>>),
      schemaNode("doc", {}, <<pa, schemaNode("blockquote", {}, <<pb>>)>>),
      schemaNode("doc", {},
        <<schemaNode("blockquote", {}, <<schemaNode("blockquote", {}, <<pa>>), pb>>)>>)}

MaxDepth == 2

TypesAfter == UNION {[1..n -> {NoTerm, "paragraph", "blockquote"}] : n \in 0..MaxDepth}

NoOp ==
  [op |-> "none", pos |-> 0, depth |-> 0, typesAfter |-> <<>>, can |-> FALSE,
   range |-> NoRange, target |-> NoDepth]

InitOp ==
  /\ schema = contentMatch
  /\ opDoc \in OpDocs
  /\ opCall = NoOp
  /\ opTr = Transform(opDoc)
  /\ opResult = NotApplied
  /\ IdleCore /\ IdleCache /\ IdleQuery /\ IdleMerge /\ IdleMark /\ IdleSlice /\ IdleJoin /\ IdleMap /\ IdleApply

\* canSplit(opDoc, pos, depth, typesAfter)
CanSplit(pos, depth, typesAfter) ==
  /\ opCall = NoOp
  /\ opCall' = [NoOp EXCEPT !.op = "split", !.pos = pos, !.depth = depth,
                            !.typesAfter = typesAfter,
                            !.can = canSplit(opDoc, pos, depth, typesAfter)]
  /\ UNCHANGED <<opDoc, opTr, opResult, schema, coreVars, cacheVars, queryVars, mergeVars,
                 markVars, sliceVars, joinVars, mapVars, applyVars>>

\* liftTarget(opDoc.resolve(from).blockRange(opDoc.resolve(to)))
LiftTarget(from, to) ==
  /\ opCall = NoOp
  /\ from <= to
  /\ LET Asked(range) ==
           /\ range # NoRange
           /\ opCall' = [NoOp EXCEPT !.op = "lift", !.range = range,
                                     !.target = liftTarget(range)]
     IN Asked(blockRange(resolve(opDoc, from), resolve(opDoc, to)))
  /\ UNCHANGED <<opDoc, opTr, opResult, schema, coreVars, cacheVars, queryVars, mergeVars,
                 markVars, sliceVars, joinVars, mapVars, applyVars>>

\* tr.split(pos, depth, typesAfter) with the arguments canSplit was asked
\* about, or tr.lift(range, target) with the depth liftTarget returned:
\* the step is built and handed to tr.step.
Restructure ==
  /\ opCall.op # "none" /\ ~opResult.called
  /\ opCall.op = "lift" => opCall.target # NoDepth
  /\ LET Done(r) == opTr' = r.tr /\ opResult' = Called(r.result)
         Handed(b) == IF b.err # NoErr THEN Done([tr |-> opTr, result |-> StepThrew(b.err)])
                     ELSE Done(transformStep(opTr, b.step))
     IN Handed(IF opCall.op = "split"
              THEN split(opTr.doc, opCall.pos, opCall.depth, opCall.typesAfter)
              ELSE lift(opCall.range, opCall.target))
  /\ UNCHANGED <<opDoc, opCall, schema, coreVars, cacheVars, queryVars, mergeVars,
                 markVars, sliceVars, joinVars, mapVars, applyVars>>

NextOp ==
  \/ \E pos \in 0..size(opDoc.content), depth \in 1..MaxDepth, typesAfter \in TypesAfter :
       CanSplit(pos, depth, typesAfter)
  \/ \E from, to \in 0..size(opDoc.content) : LiftTarget(from, to)
  \/ Restructure

SpecOp == InitOp /\ [][NextOp]_vars

\* ------------------------------------------------------------- Mapping
factor16 == 65536

\* null for a recover value, undefined for a mirror.
NoRecover == -1

NoMirror == -1

\* A recover that forgets the offset into the range.
recoverStart(m, value) == m.ranges[(value % factor16) * 3 + 1]

\* StepMap.recover(value): recoverIndex is the low sixteen bits of the
\* value, recoverOffset the rest.
recover(m, value) ==
  LET index == value % factor16
      offset == (value - index) \div factor16
      RECURSIVE Diff(_)
      Diff(i) == IF i >= index THEN 0
                 ELSE m.ranges[i * 3 + 3] - m.ranges[i * 3 + 2] + Diff(i + 1)
  IN m.ranges[index * 3 + 1] + (IF m.inverted THEN 0 ELSE Diff(0)) + offset

\* StepMap.mapResult(pos, assoc): _map with simple = false.  delInfo is
\* the set of the DEL_ flags set in the result.
RECURSIVE mapResultFrom(_, _, _, _, _)
mapResultFrom(m, pos, assoc, i, diff) ==
  IF i >= Len(m.ranges) THEN [pos |-> pos + diff, delInfo |-> {}, recover |-> NoRecover]
  ELSE LET oldIndex == IF m.inverted THEN 2 ELSE 1
           newIndex == IF m.inverted THEN 1 ELSE 2
           start == m.ranges[i + 1] - (IF m.inverted THEN diff ELSE 0)
           oldSize == m.ranges[i + 1 + oldIndex]
           newSize == m.ranges[i + 1 + newIndex]
           end == start + oldSize
           side == IF oldSize = 0 THEN assoc
                   ELSE IF pos = start THEN -1 ELSE IF pos = end THEN 1 ELSE assoc
       IN IF start > pos THEN [pos |-> pos + diff, delInfo |-> {}, recover |-> NoRecover]
          ELSE IF pos <= end
          THEN [pos |-> start + diff + (IF side < 0 THEN 0 ELSE newSize),
                delInfo |->
                  {IF pos = start THEN "DEL_AFTER"
                   ELSE IF pos = end THEN "DEL_BEFORE" ELSE "DEL_ACROSS"}
                  \cup (IF (IF assoc < 0 THEN pos # start ELSE pos # end)
                        THEN {"DEL_SIDE"} ELSE {}),
                recover |-> IF pos = (IF assoc < 0 THEN start ELSE end) THEN NoRecover
                            ELSE (i \div 3) + (pos - start) * factor16]
          ELSE mapResultFrom(m, pos, assoc, i + 3, diff + newSize - oldSize)

mapResult(m, pos, assoc) == mapResultFrom(m, pos, assoc, 0, 0)

\* Mapping.slice(from, to): the same maps and mirror, another range.
mappingSlice(mp, from, to) ==
  [maps |-> mp.maps, mirror |-> mp.mirror, from |-> from, to |-> to]

\* Mapping.getMirror(n); the mirror lists the indices of mirrored maps in
\* pairs.
getMirror(mp, n) ==
  IF \E i \in DOMAIN mp.mirror : mp.mirror[i] = n
  THEN LET i == CHOOSE k \in DOMAIN mp.mirror :
                  mp.mirror[k] = n /\ \A j \in 1..(k - 1) : mp.mirror[j] # n
       IN mp.mirror[IF (i - 1) % 2 = 1 THEN i - 1 ELSE i + 1]
  ELSE NoMirror

\* Mapping.setMirror(n, m)
setMirror(mp, n, m) == [mp EXCEPT !.mirror = @ \o <<n, m>>]

\* Mapping.appendMap(map, mirrors) with a mirror given.
appendMapMirrors(mp, m, mirrors) == setMirror(appendMap(mp, m), Len(mp.maps), mirrors)

\* Mapping._map(pos, assoc, simple) from the map at index i on: the pos
\* and delInfo of its result.
RECURSIVE mappingMapFrom(_, _, _, _, _)
mappingMapFrom(mp, pos, assoc, i, delInfo) ==
  IF i >= mp.to THEN [pos |-> pos, delInfo |-> delInfo, recover |-> NoRecover]
  ELSE LET Mapped(result, corr) ==
             IF result.recover # NoRecover /\ corr # NoMirror /\ corr > i /\ corr < mp.to
             THEN mappingMapFrom(mp, recover(mp.maps[corr + 1], result.recover), assoc,
                                 corr + 1, delInfo)
             ELSE mappingMapFrom(mp, result.pos, assoc, i + 1, delInfo \cup result.delInfo)
       IN Mapped(mapResult(mp.maps[i + 1], pos, assoc), getMirror(mp, i))

\* Mapping.mapResult(pos, assoc)
mappingMapResult(mp, pos, assoc) == mappingMapFrom(mp, pos, assoc, mp.from, {})

\* The loop of Mapping.map over the maps from..to of a mapping without
\* mirror.
RECURSIVE mappingMapEach(_, _, _, _)
mappingMapEach(mp, pos, assoc, i) ==
  IF i >= mp.to THEN pos
  ELSE mappingMapEach(mp, map(mp.maps[i + 1], pos, assoc), assoc, i + 1)

\* Mapping.map(pos, assoc)
mappingMap(mp, pos, assoc) ==
  IF mp.mirror # <<>> THEN mappingMapFrom(mp, pos, assoc, mp.from, {}).pos
  ELSE mappingMapEach(mp, pos, assoc, mp.from)

\* step.map(mapping) for a Mapping: [null, step], null when the step's
\* place was deleted.
stepMap(step, mapping) ==
  LET Ends(from, to) ==
        CASE step.stepType = "replace" ->
               IF "DEL_ACROSS" \in from.delInfo /\ "DEL_ACROSS" \in to.delInfo THEN NoStep
               ELSE [null |-> FALSE,
                     step |-> ReplaceStep(from.pos, Max(from.pos, to.pos), step.slice, FALSE)]
          [] step.stepType = "replaceAround" ->
               LET Gap(gapFrom, gapTo) ==
                     IF \/ "DEL_ACROSS" \in from.delInfo /\ "DEL_ACROSS" \in to.delInfo
                        \/ gapFrom < from.pos \/ gapTo > to.pos
                     THEN NoStep
                     ELSE [null |-> FALSE,
                           step |-> ReplaceAroundStep(from.pos, to.pos, gapFrom, gapTo,
                                                      step.slice, step.insert,
                                                      step.structure)]
               IN Gap(IF step.from = step.gapFrom THEN from.pos
                      ELSE mappingMap(mapping, step.gapFrom, -1),
                      IF step.to = step.gapTo THEN to.pos
                      ELSE mappingMap(mapping, step.gapTo, 1))
          [] step.stepType = "attr" ->
               LET At(pos) ==
                     IF pos.delInfo \cap {"DEL_AFTER", "DEL_ACROSS"} # {} THEN NoStep
                     ELSE [null |-> FALSE, step |-> AttrStep(pos.pos, step.attr, step.value)]
               IN At(mappingMapResult(mapping, step.pos, 1))
          [] OTHER -> [null |-> FALSE, step |-> step]
  IN Ends(mappingMapResult(mapping, step.from, 1), mappingMapResult(mapping, step.to, -1))

\* ---------------------------------------------------------------- join
\* The steps replacing each match of /\r?\n|\r/g in a text that starts at
\* cur by the slice sl; i is the 1-based index of the next character.
RECURSIVE newlineSteps(_, _, _, _)
newlineSteps(text, i, cur, sl) ==
  IF i > Len(text) THEN <<>>
  ELSE IF text[i] = "\r" /\ i < Len(text) /\ text[i + 1] = "\n"
  THEN <<ReplaceStep(cur + i - 1, cur + i + 1, sl, FALSE)>> \o newlineSteps(text, i + 2, cur, sl)
  ELSE IF text[i] = "\n" \/ text[i] = "\r"
  THEN <<ReplaceStep(cur + i - 1, cur + i, sl, FALSE)>> \o newlineSteps(text, i + 1, cur, sl)
  ELSE newlineSteps(text, i + 1, cur, sl)

Reverse(s) == [i \in 1..Len(s) |-> s[Len(s) + 1 - i]]

\* clearIncompatible applying the replace steps in the order found.
clearIncompatibleInOrder(doc, pos, parentType, match, clearNewlines) ==
  LET Of(node) ==
        LET RECURSIVE Children(_, _, _, _)
            Children(i, cur, m, replSteps) ==
              IF i > Len(node.content) THEN replSteps
              ELSE LET ch == node.content[i]
                       Matched(allowed) ==
                         IF allowed = NoState
                         THEN Children(i + 1, cur + nodeSize(ch), m,
                                Append(replSteps,
                                       ReplaceStep(cur, cur + nodeSize(ch), SliceEmpty, FALSE)))
                         ELSE Children(i + 1, cur + nodeSize(ch), allowed,
                                replSteps \o
                                  (IF clearNewlines /\ isText(ch.type)
                                   THEN newlineSteps(ch.text, 1, cur,
                                          Slice(<<schemaText(<<" ">>, ch.marks)>>, 0, 0))
                                   ELSE <<>>))
                   IN Matched(matchType(schema[parentType], m, ch.type))
        IN IF node = NullNode THEN [err |-> TypeError, steps |-> <<>>]
           ELSE [err |-> NoErr, steps |-> Children(1, pos + 1, match, <<>>)]
  IN Of(nodeAt(doc, pos))

\* clearIncompatible(tr, pos, parentType, match, clearNewlines) on tr.doc
\* = doc: [err, steps], the steps it hands to tr.step in that order, or
\* the TypeError of reading the children of no node.  parentType has
\* inline content, and in the schema such a type allows every mark, has no
\* whitespace "pre" and ends validly in every state, so that no mark is
\* removed and nothing is filled in.
clearIncompatible(doc, pos, parentType, match, clearNewlines) ==
  LET Last(c) == [err |-> c.err, steps |-> Reverse(c.steps)]
  IN Last(clearIncompatibleInOrder(doc, pos, parentType, match, clearNewlines))

\* tr.step(steps[i]), tr.step(steps[i + 1]), ... up to the first that
\* throws: [tr, result] with the last result.
RECURSIVE stepEach(_, _, _)
stepEach(tr, steps, i) ==
  LET Stepped(r) ==
        IF r.result.err # NoErr \/ i = Len(steps) THEN r ELSE stepEach(r.tr, steps, i + 1)
  IN Stepped(transformStep(tr, steps[i]))

\* A join that deletes from pos on.
joinAfter(tr, pos, depth) ==
  stepEach(tr, <<ReplaceStep(pos, pos + depth, SliceEmpty, TRUE)>>, 1)

\* join(tr, pos, depth) up to its calls of tr.step: [err, steps], the
\* steps it hands over in that order.  The schema has no
\* linebreakReplacement, so convertNewlines stays null and
\* clearIncompatible clears the newlines.  The last step's ends are mapped
\* through the maps of the steps that clearIncompatible adds, which are
\* those of tr.mapping.slice(mapFrom) once they are applied.
joinSteps(tr, pos, depth) ==
  LET At(rbefore) ==
        LET before == posNode(rbefore, posDepth(rbefore))
            Last(mapping) ==
              ReplaceStep(mappingMap(mapping, pos - depth, 1),
                          mappingMap(mapping, pos + depth, -1), SliceEmpty, TRUE)
            Cleared(c) ==
              IF c.err # NoErr THEN c
              ELSE [err |-> NoErr,
                    steps |->
                      Append(c.steps,
                        Last([maps |-> tr.mapping.maps \o
                                         [i \in DOMAIN c.steps |-> getMap(c.steps[i])],
                              mirror |-> tr.mapping.mirror,
                              from |-> Len(tr.steps),
                              to |-> Len(tr.mapping.maps) + Len(c.steps)]))]
        IN Cleared(IF inlineContent(before.type)
                   THEN clearIncompatible(tr.doc, pos + depth - 1, before.type,
                          contentMatchAt(before, posIndex(rbefore, posDepth(rbefore))), TRUE)
                   ELSE [err |-> NoErr, steps |-> <<>>])
  IN At(resolve(tr.doc, pos - depth))

\* join(tr, pos, depth): [tr, result], each step handed to tr.step until
\* one throws.
join(tr, pos, depth) ==
  LET Handed(b) == IF b.err # NoErr THEN [tr |-> tr, result |-> StepThrew(b.err)]
                   ELSE stepEach(tr, b.steps, 1)
  IN Handed(joinSteps(tr, pos, depth))

\* doc(p("ab"), p("cd")), doc(p("ab"), p("\r\n\n")), doc(p("a"),
\* blockquote(p("b"))) and doc(blockquote(p("a")), blockquote(p("\n"))).
JoinDocs ==
  LET P(text) == schemaNode("paragraph", {}, <<schemaText(text, <<>>)>>)
  IN {schemaNode("doc", {}, <<P(<<"a", "b">>), P(<<"c", "d">>)>>),
      schemaNode("doc", {}, <<P(<<"a", "b">>), P(<<"\r", "\n", "\n">>)>>),
      schemaNode("doc", {}, <<P(<<"a">>), schemaNode("blockquote", {}, <<P(<<"b">>)>>)>>),
      schemaNode("doc", {}, <<schemaNode("blockquote", {}, <<P(<<"a">>)>>),
                              schemaNode("blockquote", {}, <<P(<<"\n">>)>>)>>)}

NoJoin == [pos |-> -1, depth |-> 0]

InitJoin ==
  /\ schema = contentMatch
  /\ jDoc \in JoinDocs
  /\ jPos = NullPos
  /\ jCall = NoJoin
  /\ jTr = Transform(jDoc)
  /\ jResult = NotApplied
  /\ IdleCore /\ IdleCache /\ IdleQuery /\ IdleMerge /\ IdleMark /\ IdleSlice /\ IdleOp /\ IdleMap /\ IdleApply

\* jDoc.resolve(pos)
ResolveAt(pos) ==
  /\ jPos' = resolve(jDoc, pos)
  /\ UNCHANGED <<jDoc, jCall, jTr, jResult, schema, coreVars, cacheVars, queryVars,
                 mergeVars, markVars, sliceVars, opVars, mapVars, applyVars>>

\* join(tr, pos, depth) on a transform without steps, for the positions
\* that resolve and nodeAt accept.
Join(pos, depth) ==
  /\ jCall = NoJoin
  /\ pos - depth >= 0 /\ pos + depth - 1 <= size(jDoc.content)
  /\ jCall' = [pos |-> pos, depth |-> depth]
  /\ LET Done(r) == jTr' = r.tr /\ jResult' = Called(r.result)
     IN Done(join(jTr, pos, depth))
  /\ UNCHANGED <<jDoc, jPos, schema, coreVars, cacheVars, queryVars, mergeVars, markVars,
                 sliceVars, opVars, mapVars, applyVars>>

NextJoin ==
  \/ \E pos \in 0..size(jDoc.content) : ResolveAt(pos)
  \/ \E pos \in 0..size(jDoc.content), depth \in 1..MaxDepth : Join(pos, depth)

SpecJoin == InitJoin /\ [][NextJoin]_vars

\* ------------------------------------------------------ using a Mapping
\* new Mapping(maps)
Mapping(maps) == [maps |-> maps, mirror |-> <<>>, from |-> 0, to |-> Len(maps)]

\* The maps of a deletion, an insertion, a replacement, and of a
\* ReplaceAroundStep that removes one token on each side of its gap.
SampleMaps ==
  {StepMap(<<1, 2, 0>>), StepMap(<<2, 0, 1>>), StepMap(<<1, 1, 2>>),
   StepMap(<<0, 1, 0, 3, 1, 0>>)}

\* The most maps that a Mapping is given, and the last position mapped.
MaxMaps == 2

MaxPos == 5

\* The steps mapped: replace steps with and without the structure flag, a
\* ReplaceAroundStep and the two attribute steps.
MappedSteps ==
  {ReplaceStep(from, to, sl, structure) :
     from \in 0..MaxPos, to \in 0..MaxPos,
     sl \in {SliceEmpty, Slice(<<schemaText(<<"x">>, <<>>)>>, 0, 0)},
     structure \in BOOLEAN}
  \cup {ReplaceAroundStep(0, 4, 1, 3, SliceEmpty, 0, TRUE), AttrStep(1, "align", 1),
        DocAttrStep("v", 1)}

NoMapCall ==
  [op |-> "none", from |-> 0, to |-> 0, x |-> StepMapEmpty, pos |-> 0, assoc |-> 0,
   result |-> 0, step |-> NoStep.step, mapped |-> NoStep]

InitMap ==
  /\ mpMapping = Mapping(<<>>)
  /\ mpCall = NoMapCall
  /\ schema = contentMatch
  /\ IdleCore /\ IdleCache /\ IdleQuery /\ IdleMerge /\ IdleMark /\ IdleSlice /\ IdleOp /\ IdleJoin /\ IdleApply

\* mapping.appendMap(m)
AppendMap(m) ==
  /\ mpCall.op = "none"
  /\ Len(mpMapping.maps) < MaxMaps
  /\ mpMapping' = appendMap(mpMapping, m)
  /\ UNCHANGED <<mpCall, schema, coreVars, cacheVars, queryVars, mergeVars, markVars,
                 sliceVars, opVars, joinVars, applyVars>>

\* mapping.appendMap(last.invert(), index of last): the inverse of the
\* last map, registered as its mirror.
AppendInverse ==
  /\ mpCall.op = "none"
  /\ Len(mpMapping.maps) > 0 /\ Len(mpMapping.maps) < MaxMaps
  /\ getMirror(mpMapping, Len(mpMapping.maps) - 1) = NoMirror
  /\ mpMapping' = appendMapMirrors(mpMapping, invert(mpMapping.maps[Len(mpMapping.maps)]),
                                   Len(mpMapping.maps) - 1)
  /\ UNCHANGED <<mpCall, schema, coreVars, cacheVars, queryVars, mergeVars, markVars,
                 sliceVars, opVars, joinVars, applyVars>>

\* mapping.slice(from, to).map(pos, assoc)
SliceMap(from, to, pos, assoc) ==
  /\ mpCall.op = "none"
  /\ from <= to
  /\ mpCall' = [NoMapCall EXCEPT !.op = "map", !.from = from, !.to = to, !.pos = pos,
                                 !.assoc = assoc,
                                 !.result = mappingMap(mappingSlice(mpMapping, from, to),
                                                       pos, assoc)]
  /\ UNCHANGED <<mpMapping, schema, coreVars, cacheVars, queryVars, mergeVars, markVars,
                 sliceVars, opVars, joinVars, applyVars>>

\* s = mapping.slice(from, to); s.appendMap(x); s.map(pos, assoc)
SliceAppendMap(from, to, x, pos, assoc) ==
  /\ mpCall.op = "none"
  /\ from <= to
  /\ mpCall' = [NoMapCall EXCEPT !.op = "append", !.from = from, !.to = to, !.x = x,
                                 !.pos = pos, !.assoc = assoc,
                                 !.result =
                                   mappingMap(appendMap(mappingSlice(mpMapping, from, to), x),
                                              pos, assoc)]
  /\ UNCHANGED <<mpMapping, schema, coreVars, cacheVars, queryVars, mergeVars, markVars,
                 sliceVars, opVars, joinVars, applyVars>>

\* step.map(mapping)
StepMapped(step) ==
  /\ mpCall.op = "none"
  /\ step.from <= step.to
  /\ mpCall' = [NoMapCall EXCEPT !.op = "step", !.step = step,
                                 !.mapped = stepMap(step, mpMapping)]
  /\ UNCHANGED <<mpMapping, schema, coreVars, cacheVars, queryVars, mergeVars, markVars,
                 sliceVars, opVars, joinVars, applyVars>>

NextMap ==
  \/ \E m \in SampleMaps : AppendMap(m)
  \/ AppendInverse
  \/ \E from, to \in 0..Len(mpMapping.maps), pos \in 0..MaxPos, assoc \in {-1, 1} :
       SliceMap(from, to, pos, assoc)
  \/ \E from, to \in 0..Len(mpMapping.maps), x \in SampleMaps, pos \in 0..MaxPos,
        assoc \in {-1, 1} : SliceAppendMap(from, to, x, pos, assoc)
  \/ \E step \in MappedSteps : StepMapped(step)

SpecMap == InitMap /\ [][NextMap]_vars

\* ---------------------------------------- EditorState.applyTransaction
\* The plugins are listed by whether their spec has appendTransaction.  A
\* transaction is known by the plugin that appended it (its index; Root
\* for rootTr), a state by the number of transactions applied to reach it
\* from this.  apPassed lists, per plugin, the indices in trs of the
\* transactions handed to its appendTransaction, call after call.
Root == -1

NoSeen == [null |-> TRUE, at |-> <<>>]

\* A seen array that takes every plugin to have seen nothing.
initSeenNothing(count, index, newState, length) ==
  [null |-> FALSE, at |-> [j \in 1..count |-> [state |-> 0, n |-> 0]]]

\* seen as applyTransaction first fills it, before plugin index appends
\* its transaction to the trs of the given length.
initSeen(count, index, newState, length) ==
  [null |-> FALSE,
   at |-> [j \in 1..count |-> IF j - 1 < index THEN [state |-> newState, n |-> length]
                             ELSE [state |-> 0, n |-> 0]]]

\* The most plugins configured and the most transactions in trs.
MaxPlugins == 3

MaxTrs == 3

InitApply ==
  /\ apPlugins \in UNION {[1..count -> BOOLEAN] : count \in 0..MaxPlugins}
  /\ apPc = "idle"
  /\ apTrs = <<>>
  /\ apNewState = 0
  /\ apSeen = NoSeen
  /\ apI = 0
  /\ apHaveNew = FALSE
  /\ apPassed = [p \in DOMAIN apPlugins |-> <<>>]
  /\ apResult = [state |-> 0, transactions |-> <<>>]
  /\ schema = Idle
  /\ IdleCore /\ IdleCache /\ IdleQuery /\ IdleMerge /\ IdleMark /\ IdleSlice /\ IdleOp /\ IdleJoin /\ IdleMap

\* applyTransaction(rootTr) up to its loop; filtered tells whether
\* this.filterTransaction(rootTr) refused the transaction.
ApplyTransaction(filtered) ==
  /\ apPc = "idle"
  /\ IF filtered
     THEN /\ apPc' = "returned"
          /\ apResult' = [state |-> 0, transactions |-> <<>>]
          /\ UNCHANGED <<apTrs, apNewState>>
     ELSE /\ apPc' = "loop"
          /\ apTrs' = <<[by |-> Root]>>
          /\ apNewState' = 1
          /\ UNCHANGED apResult
  /\ UNCHANGED <<apPlugins, apSeen, apI, apHaveNew, apPassed, schema, coreVars, cacheVars,
                 queryVars, mergeVars, markVars, sliceVars, opVars, joinVars, mapVars>>

\* One round of the inner loop, for the plugin at index apI.  hook is what
\* the plugin's appendTransaction and newState.filterTransaction make of
\* the call: no transaction, a transaction that is accepted, or one that
\* is refused.
Visit(hook) ==
  /\ apPc = "loop"
  /\ apI < Len(apPlugins)
  /\ LET n == IF apSeen.null THEN 0 ELSE apSeen.at[apI + 1].n
         called == apPlugins[apI + 1] /\ n < Len(apTrs)
         appended == called /\ hook = "accepted"
         trs1 == IF appended THEN Append(apTrs, [by |-> apI]) ELSE apTrs
         newState1 == IF appended THEN apNewState + 1 ELSE apNewState
         seen1 == IF appended /\ apSeen.null
                  THEN initSeen(Len(apPlugins), apI, apNewState, Len(apTrs))
                  ELSE apSeen
     IN /\ ~called => hook = "none"
        /\ appended => Len(apTrs) < MaxTrs
        /\ apPassed' = IF called
                       THEN [apPassed EXCEPT ![apI + 1] =
                               @ \o [k \in 1..(Len(apTrs) - n) |-> n + k]]
                       ELSE apPassed
        /\ apTrs' = trs1
        /\ apNewState' = newState1
        /\ apHaveNew' = (apHaveNew \/ appended)
        /\ apSeen' = IF apPlugins[apI + 1] /\ ~seen1.null
                     THEN [seen1 EXCEPT !.at[apI + 1] = [state |-> newState1, n |-> Len(trs1)]]
                     ELSE seen1
  /\ apI' = apI + 1
  /\ UNCHANGED <<apPlugins, apPc, apResult, schema, coreVars, cacheVars, queryVars,
                 mergeVars, markVars, sliceVars, opVars, joinVars, mapVars>>

\* The end of the inner loop: return when no transaction was added, or
\* go through the plugins again.
RoundEnd ==
  /\ apPc = "loop"
  /\ apI = Len(apPlugins)
  /\ IF apHaveNew
     THEN /\ apI' = 0 /\ apHaveNew' = FALSE
          /\ UNCHANGED <<apPc, apResult>>
     ELSE /\ apPc' = "returned"
          /\ apResult' = [state |-> apNewState, transactions |-> apTrs]
          /\ UNCHANGED <<apI, apHaveNew>>
  /\ UNCHANGED <<apPlugins, apTrs, apNewState, apSeen, apPassed, schema, coreVars,
                 cacheVars, queryVars, mergeVars, markVars, sliceVars, opVars, joinVars,
                 mapVars>>

NextApply ==
  \/ \E filtered \in BOOLEAN : ApplyTransaction(filtered)
  \/ \E hook \in {"none", "accepted", "refused"} : Visit(hook)
  \/ RoundEnd

SpecApply == InitApply /\ [][NextApply]_vars

\* ------------------------------------------------ properties: automaton

\* A type that createAndFill can produce: not text, no required attribute.
CanGenerate(type) == type # "text" /\ ~TypeNamed(CMTypes, type).required

\* C8: for every compiled expression e and type sequence f, matching f
\* ends in a state exactly when e accepts f: an accepted f is matched, and
\* an f matched up to an accepting state is accepted by e.
C8_MatchIffAccepted ==
  cmErr = NoErr =>
    /\ Accepts(cmExpr, cmWord) => cmState # NoState
    /\ (cmState # NoState /\ cmDfa[cmState + 1].validEnd) => Accepts(cmExpr, cmWord)

\* C9 as stated: a fragment returned by fillBefore is of minimal length;
\* no shorter sequence of generatable types leads to a state from which
\* `after` fits.
C9_FillIsMinimal ==
  cmFill.found =>
    \A k \in 0..(Len(cmFill.types) - 1) :
      \A s \in ReachK(CMTypes, cmDfa, {cmState}, k) :
        ~Fits(cmDfa, s, cmFill.after, cmFill.toEnd)

\* C9 amended: a fragment returned by fillBefore consists of generatable
\* types that lead from the state to a state from which `after` fits
\* (ending in an accepting state when toEnd is set), and fillBefore
\* returns null only when no sequence of generatable types does; the
\* sequence is the first one a depth-first search finds and need not be
\* the shortest.
C9_FillIsValid ==
  cmFill.called =>
    IF cmFill.found
    THEN /\ \A i \in DOMAIN cmFill.types : CanGenerate(cmFill.types[i])
         /\ Follow(cmDfa, cmState, cmFill.types) # NoState
         /\ Fits(cmDfa, Follow(cmDfa, cmState, cmFill.types), cmFill.after, cmFill.toEnd)
    ELSE \A k \in 0..Len(cmDfa) :
           \A s \in ReachK(CMTypes, cmDfa, {cmState}, k) :
             ~Fits(cmDfa, s, cmFill.after, cmFill.toEnd)

\* C9 witness: fillBefore returned two nodes where one would have done.
C9_LongerFill ==
  /\ cmFill.found
  /\ Len(cmFill.types) = 2
  /\ \E s \in ReachK(CMTypes, cmDfa, {cmState}, 1) : Fits(cmDfa, s, cmFill.after, cmFill.toEnd)

\* C10: compiling fails with the dead-end error exactly when the automaton
\* has a non-accepting state all of whose edges carry non-generatable
\* types; so every compiled automaton has a generatable edge out of each
\* non-accepting state.
C10_DeadEndsRejected ==
  cmDfa # <<>> =>
    /\ (cmErr = DeadEndError) <=>
         \E i \in DOMAIN cmDfa :
           /\ ~cmDfa[i].validEnd
           /\ \A j \in DOMAIN cmDfa[i].next : ~CanGenerate(cmDfa[i].next[j].type)
    /\ cmErr = NoErr =>
         \A i \in DOMAIN cmDfa :
           cmDfa[i].validEnd \/ \E j \in DOMAIN cmDfa[i].next : CanGenerate(cmDfa[i].next[j].type)

\* C10 witness: compilation rejected for a dead end behind the start state.
C10_DeadEndFound ==
  /\ cmErr = DeadEndError
  /\ \E j \in DOMAIN cmDfa[1].next : CanGenerate(cmDfa[1].next[j].type)

\* ------------------------------------------------- properties: fragments

\* C5: a fragment produced by a construction entry point holds no two
\* consecutive text nodes with the same mark set.
C5_NoAdjacentText ==
  \A i \in 1..(Len(frag) - 1) :
    ~(isText(frag[i].type) /\ isText(frag[i + 1].type) /\ frag[i].marks = frag[i + 1].marks)

\* --------------------------------------------------- properties: replace

\* C6: replace($from, $to, slice) fails with a ReplaceError, and yields no
\* tree, whenever slice.openStart exceeds $from.depth and whenever
\* $from.depth - slice.openStart differs from $to.depth - slice.openEnd.
C6_DepthMismatchIsReplaceError ==
  rResult.called =>
    LET rfrom == resolve(rDoc, rFrom)
        rto == resolve(rDoc, rTo)
    IN (\/ rSlice.openStart > posDepth(rfrom)
        \/ posDepth(rfrom) - rSlice.openStart # posDepth(rto) - rSlice.openEnd)
       => rResult.err = ReplaceError /\ rResult.node = NullNode

\* C6 witness: replace was called with a slice opened deeper than $from
\* and raised a ReplaceError.
C6_TooDeepRaised ==
  /\ rResult.called
  /\ rSlice.openStart > posDepth(resolve(rDoc, rFrom))
  /\ rResult.err = ReplaceError

\* C7: for a schema-valid document d and a position p within it,
\* d.replace(p, p, Slice.empty) returns a document eq to d.
C7_EmptyReplaceIsIdentity ==
  (rResult.called /\ rFrom = rTo /\ rSlice = SliceEmpty)
    => rResult.err = NoErr /\ eq(rResult.node, rDoc)

\* ----------------------------------------------------- properties: steps

\* The position lies strictly inside a range that the step deletes.
InsideDeleted(step, pos) ==
  LET ranges == getMap(step).ranges
  IN \E i \in {j \in DOMAIN ranges : j % 3 = 1} :
       ranges[i] < pos /\ pos < ranges[i] + ranges[i + 1]

\* C1: for a step that applied to t and a position p of t that is not
\* inside a range the step deletes, mapping p through the step's map and
\* then through the map of the inverted step returns p.
C1_MapThereAndBack ==
  (sMapped.called /\ ~InsideDeleted(sStep, sMapped.pos)) => sMapped.back = sMapped.pos

\* The position is the start of a range that the step deletes without
\* inserting anything in its place.
StartOfPureDeletion(step, pos) ==
  LET ranges == getMap(step).ranges
  IN \E i \in {j \in DOMAIN ranges : j % 3 = 1} :
       ranges[i] = pos /\ ranges[i + 1] > 0 /\ ranges[i + 2] = 0

\* The position is the end of a replace-around step whose gap is empty and
\* that deletes after the gap without inserting there.
EndBehindEmptyGap(step, pos) ==
  /\ step.stepType = "replaceAround"
  /\ step.gapFrom = step.gapTo
  /\ pos = step.to /\ step.to > step.gapTo
  /\ sliceSize(step.slice) = step.insert

\* C1 amended: the round trip returns p when p is neither inside a range
\* that the step deletes nor at the start of a range that it deletes
\* without inserting anything in its place, nor at the end of such a range
\* behind the empty gap of a replace-around step.
C1_MapThereAndBackOutsidePureDeletion ==
  (/\ sMapped.called
   /\ ~InsideDeleted(sStep, sMapped.pos)
   /\ ~StartOfPureDeletion(sStep, sMapped.pos)
   /\ ~EndBehindEmptyGap(sStep, sMapped.pos))
    => sMapped.back = sMapped.pos

\* C1 witness: a position at the start of a replaced range, or behind it,
\* that the step moved and the inverted step's map moved back.
C1_MovedAndRecovered ==
  /\ sMapped.called
  /\ ~InsideDeleted(sStep, sMapped.pos)
  /\ sMapped.forward # sMapped.pos
  /\ sMapped.back = sMapped.pos

\* C2: for a step that applied to t and produced t', the inverted step
\* applies to t' and produces a document eq to t.
C2_InverseRestores ==
  /\ sInverse.called => sInverse.err = NoErr
  /\ sRestored.called => Succeeded(sRestored) /\ eq(sRestored.doc, sDoc)

\* C3: applying a replace or replace-around step never throws; a result
\* that the content automaton of the enclosing node rejects is returned as
\* a failed StepResult.
C3_ApplyNeverThrows ==
  (sApplied.called /\ sStep.stepType \in {"replace", "replaceAround"})
    => sApplied.err = NoErr

\* ------------------------------------------------- properties: transform

\* C4: a call of maybeStep or step whose step fails to apply leaves the
\* transform's doc, steps, docs and mapping as they were before the call.
C4_FailedStepLeavesTransform ==
  [][(trResult'.failed # NoTerm \/ trResult'.err # NoErr)
       => UNCHANGED <<trDoc, trSteps, trDocs, trMapping>>]_vars

\* C4 witness: a step has failed on a transform that holds a step.
C4_FailedAfterStep ==
  /\ trResult.failed # NoTerm
  /\ trSteps # <<>>

\* ------------------------------------------------ properties: the cache

\* C11: the cached resolve returns what the uncached resolve returns for
\* the same document instance and position: the same pos, path (node, index
\* and offset at every depth, hence the same depth) and parentOffset.
C11_CachedIsUncached ==
  rcResult.called => rcResult.rp = resolve(CacheDocs[rcResult.doc], rcResult.pos)

\* C11 witness: a position comes out of the cache of a document while the
\* cache of the other document holds the same position.
C11_HitBesideOtherDocument ==
  /\ rcResult.called
  /\ \A d \in DOMAIN CacheDocs : cachedAt(resolveCache[d].elts, rcResult.pos) # 0
  /\ resolve(CacheDocs[1], rcResult.pos) # resolve(CacheDocs[2], rcResult.pos)
  /\ rcResult.doc = 2

\* C12: the cache of every document instance holds at most
\* resolveCacheSize entries.
C12_CacheBounded ==
  \A d \in DOMAIN CacheDocs : Len(resolveCache[d].elts) <= resolveCacheSize

\* C12 witness: a thirteenth position was cached and took the slot that
\* was written first.
C12_OldestOverwritten ==
  /\ Len(resolveCache[1].elts) = resolveCacheSize
  /\ resolveCache[1].i = 1
  /\ resolveCache[1].elts[1].pos = resolveCacheSize

\* ------------------------------------- properties: state between queries

\* C13: apart from the position cache no query writes state that a later
\* call can read: the wrapping cache of every ContentMatch and the object
\* that findIndex returns are as they were constructed.
C13_NoStateButPositionCache ==
  /\ \A match \in Matches : wrapCache[match] = <<>>
  /\ found = [index |-> 0, offset |-> 0]

\* ------------------------------------------------- properties: merging

\* C14: when two replace steps applied one after the other and the first
\* merges with the second, the merged step applies to the first document
\* and produces a document eq to the one the two steps produced.
C14_MergedStepEquivalent ==
  mApplied.called => Succeeded(mApplied) /\ eq(mApplied.doc, mSecond.doc)

\* C14 witness: a merged step that replaces a range and inserts content
\* of both steps has applied.
C14_MergedApplied ==
  /\ Succeeded(mApplied)
  /\ sliceSize(mStep1.slice) > 0 /\ sliceSize(mStep2.slice) > 0
  /\ mMerged.step.to > mMerged.step.from

\* ------------------------------------------- properties: structure steps

\* The tokens that the positions of a fragment lie between: one per
\* character and per leaf, an opening and a closing one around the
\* content of any other node.
RECURSIVE boundaries(_)
boundaries(content) ==
  IF content = <<>> THEN <<>>
  ELSE LET node == Head(content)
           own == IF isText(node.type) THEN [i \in 1..Len(node.text) |-> "text"]
                  ELSE IF isLeaf(node.type) THEN <<"leaf">>
                  ELSE <<"open">> \o boundaries(node.content) \o <<"close">>
       IN own \o boundaries(Tail(content))

\* A run of closing boundaries followed by a run of opening ones.
ClosingsThenOpenings(toks) ==
  \E n \in 0..Len(toks) :
    /\ \A i \in 1..n : toks[i] = "close"
    /\ \A i \in (n + 1)..Len(toks) : toks[i] = "open"

\* C15: a replace step with the structure flag fails whenever its range
\* holds anything but closing boundaries followed by opening boundaries.
C15_StructureNeverRemoves ==
  (/\ sApplied.called /\ sStep.stepType = "replace" /\ sStep.structure
   /\ ~ClosingsThenOpenings(SubSeq(boundaries(sDoc.content), sStep.from + 1, sStep.to)))
  => sApplied.failed # NoTerm

\* ----------------------------------------------- properties: mark sets

\* C16: a mark set made by addToSet or setFrom is ordered by rank, holds
\* no two equal marks, and no two marks of which one's type excludes the
\* other's.
C16_MarkSetWellFormed ==
  \A i, j \in DOMAIN markSet :
    i < j => /\ rank(markSet[i].type) <= rank(markSet[j].type)
             /\ markSet[i] # markSet[j]
             /\ ~excludes(markSet[i].type, markSet[j].type)
             /\ ~excludes(markSet[j].type, markSet[i].type)

\* ------------------------------------------------- properties: slices

\* C17: every slice obtained has openStart no greater than the depth of
\* non-leaf nodes down the first children of its content, and openEnd no
\* greater than that down the last children.
C17_OpenWithinContent ==
  slc.err = NoErr =>
    /\ slc.slice.openStart <= openDepthStart(slc.slice.content)
    /\ slc.slice.openEnd <= openDepthEnd(slc.slice.content)

\* ------------------------------------------------ properties: node sizes

\* A node and all the nodes below it.
RECURSIVE nodesOf(_)
nodesOf(node) ==
  {node} \cup UNION {nodesOf(node.content[i]) : i \in DOMAIN node.content}

\* The nodes of the document a step is applied to and of the one it makes.
StepNodes ==
  nodesOf(sDoc) \cup (IF Succeeded(sApplied) THEN nodesOf(sApplied.doc) ELSE {})

\* C18 as stated: a text node has the size of its string and every other
\* node has size 2 + the sizes of its children.
C18_TwoPlusChildren ==
  \A node \in StepNodes :
    nodeSize(node) = IF isText(node.type) THEN Len(node.text) ELSE 2 + size(node.content)

\* C18 amended: a text node has the size of its string, a node of any other
\* leaf type has size 1, and every node of a type that allows content,
\* childless or not, has size 2 + the sizes of its children.
C18_LeafIsOne ==
  \A node \in StepNodes :
    nodeSize(node) = IF isText(node.type) THEN Len(node.text)
                     ELSE IF isLeaf(node.type) THEN 1
                     ELSE 2 + size(node.content)

\* C18 witness: a step has put a leaf of size 1 into a document that had
\* none, beside a childless paragraph of size 2.
C18_LeafBesideEmptyParagraph ==
  /\ Succeeded(sApplied)
  /\ \A node \in nodesOf(sDoc) : node.type # "br"
  /\ \E node \in nodesOf(sApplied.doc) : node.type = "br" /\ nodeSize(node) = 1
  /\ \E node \in nodesOf(sApplied.doc) :
       node.type = "paragraph" /\ node.content = <<>> /\ nodeSize(node) = 2

\* -------------------------------------- properties: splitting and lifting

\* C19: when canSplit returned true for a valid document, split with the
\* same arguments adds its step without failing or throwing, and the
\* document it makes is valid.
C19_SplitAfterCanSplit ==
  (opCall.op = "split" /\ opCall.can /\ opResult.called)
  => /\ Succeeded(opResult)
     /\ Len(opTr.steps) = 1
     /\ check(opTr.doc)

\* The document position at which a lift has put the range's content.
LiftedAt == resolve(opTr.doc, opTr.steps[1].from + opTr.steps[1].insert)

\* The nodes that the range of the lift held.
LiftedContent ==
  cutByIndex(posNode(opCall.range.from, opCall.range.depth).content,
             posIndex(opCall.range.from, opCall.range.depth),
             indexAfter(opCall.range.to, opCall.range.depth))

\* C20: when liftTarget returned a depth for a range of a valid document,
\* lift adds exactly one replace-around step, which applies, and the
\* document it makes is valid and holds the range's content at that depth.
C20_LiftAfterLiftTarget ==
  (opCall.op = "lift" /\ opResult.called)
  => /\ Succeeded(opResult)
     /\ Len(opTr.steps) = 1
     /\ opTr.steps[1].stepType = "replaceAround"
     /\ check(opTr.doc)
     /\ posDepth(LiftedAt) = opCall.target
     /\ cutByIndex(posNode(LiftedAt, opCall.target).content,
                   posIndex(LiftedAt, opCall.target),
                   posIndex(LiftedAt, opCall.target) + Len(LiftedContent)) = LiftedContent

\* C20 witness: a lift has split the node around the range: content of
\* that node stays on one side of the lifted content.
C20_LiftSplitParent ==
  /\ opCall.op = "lift" /\ Succeeded(opResult)
  /\ opTr.steps[1].slice.content # <<>>

\* ------------------------------------------------ properties: scenarios
\* doc(paragraph("ab"), paragraph("cd"))
ScenarioDoc ==
  schemaNode("doc", {},
    <<schemaNode("paragraph", {}, <<schemaText(<<"a", "b">>, <<>>)>>),
      schemaNode("paragraph", {}, <<schemaText(<<"c", "d">>, <<>>)>>)>>)

\* C21 as stated: in doc(paragraph("ab"), paragraph("cd")) offset 4
\* resolves to the end of the first paragraph, at depth 1 with index 0 in
\* the document.
C21_OffsetFourEndsFirstParagraph ==
  (jDoc = ScenarioDoc /\ jPos.pos = 4) =>
    (posDepth(jPos) = 1 /\ posIndex(jPos, 0) = 0)

\* C21: in doc(paragraph("ab"), paragraph("cd")) offset 4 resolves to the
\* position between the two paragraphs, at depth 0 with index 1; the end
\* of the first paragraph is offset 3, which resolves to depth 1 with index
\* 0 in the document and the first paragraph as parent, behind its text.
C21_OffsetThreeEndsFirstParagraph ==
  jDoc = ScenarioDoc =>
    /\ jPos.pos = 4 => (posDepth(jPos) = 0 /\ posIndex(jPos, 0) = 1)
    /\ jPos.pos = 3 =>
         /\ posDepth(jPos) = 1
         /\ posIndex(jPos, 0) = 0
         /\ posNode(jPos, 1) = ScenarioDoc.content[1]
         /\ jPos.parentOffset = 2

C21_ResolvedBetweenParagraphs ==
  jDoc = ScenarioDoc /\ jPos.pos = 4 /\ posDepth(jPos) = 0

\* C22: on doc(paragraph("ab"), paragraph("cd")) join(tr, 4, 1) succeeds
\* and leaves doc(paragraph("abcd")), the paragraph holding the one text
\* node "abcd".
C22_JoinMergesParagraphs ==
  (jDoc = ScenarioDoc /\ jCall = [pos |-> 4, depth |-> 1]) =>
    /\ Succeeded(jResult)
    /\ jTr.doc = schemaNode("doc", {},
         <<schemaNode("paragraph", {}, <<schemaText(<<"a", "b", "c", "d">>, <<>>)>>)>>)

C22_Joined ==
  jDoc = ScenarioDoc /\ jCall = [pos |-> 4, depth |-> 1] /\ Len(jTr.steps) = 1

\* C26: when join throws, the transform's doc, steps, docs and mapping are
\* as they were before the call, none of the steps that the call issued
\* before the one that failed being recorded.
C26_FailedJoinLeavesTransform ==
  (jResult.called /\ jResult.err # NoErr) => jTr = Transform(jDoc)

\* fillBefore(Fragment.empty, true) was asked of the state reached after
\* the one node a.
FilledAfterOne ==
  cmWord = <<"a">> /\ cmFill.called /\ cmFill.after = <<>> /\ cmFill.toEnd

\* C23 as stated, with a for paragraph and b or r for heading, r having a
\* required attribute: from the state after one a, fillBefore(empty, true)
\* returns the empty fragment under "a b?" and the one node b under "a b";
\* under "a r" the state exists and fillBefore returns null.
C23_RequiredHeadingFillsNull ==
  /\ (cmTokens = <<"a", "b", "?">> /\ FilledAfterOne) => (cmFill.found /\ cmFill.types = <<>>)
  /\ (cmTokens = <<"a", "b">> /\ FilledAfterOne) => (cmFill.found /\ cmFill.types = <<"b">>)
  /\ (cmTokens = <<"a", "r">> /\ cmErr # Unparsed) => cmErr = NoErr
  /\ (cmTokens = <<"a", "r">> /\ FilledAfterOne) => ~cmFill.found

\* C23: from the state after one a, fillBefore(empty, true) returns the
\* empty fragment under "a b?" and a fragment of exactly the one node b
\* under "a b"; under "a r", r having a required attribute, the expression
\* is rejected for its dead end when it is compiled, so that there is no
\* state to ask and fillBefore never returns null for it.
C23_FillAfterParagraph ==
  /\ (cmTokens = <<"a", "b", "?">> /\ FilledAfterOne) => (cmFill.found /\ cmFill.types = <<>>)
  /\ (cmTokens = <<"a", "b">> /\ FilledAfterOne) => (cmFill.found /\ cmFill.types = <<"b">>)
  /\ cmTokens = <<"a", "r">> => (cmErr \in {Unparsed, DeadEndError} /\ ~cmFill.called)

C23_HeadingFilledIn ==
  cmTokens = <<"a", "b">> /\ FilledAfterOne /\ cmFill.types = <<"b">>

\* rFrom is the end of a paragraph's content and rTo the start of the
\* content of the paragraph that follows it in the document.
BetweenParagraphs(rfrom, rto) ==
  /\ posDepth(rfrom) = 1 /\ posDepth(rto) = 1
  /\ posNode(rfrom, 1).type = "paragraph" /\ posNode(rto, 1).type = "paragraph"
  /\ rFrom = posEnd(rfrom, 1) /\ rTo = posStart(rto, 1)
  /\ posIndex(rto, 0) = posIndex(rfrom, 0) + 1

\* C24: replace from the end of one paragraph to the start of the next
\* with a slice of one paragraph open by 1 on both sides succeeds and
\* leaves one paragraph in place of the two, with the markup of the first
\* and as content the first's, the slice paragraph's and the second's
\* joined; no third paragraph is made.
C24_OpenSliceMergesParagraphs ==
  LET Merged(rfrom, rto, px) ==
        (rSlice = Slice(<<px>>, 1, 1) /\ BetweenParagraphs(rfrom, rto)) =>
          /\ rResult.err = NoErr
          /\ Len(rResult.node.content) = Len(rDoc.content) - 1
          /\ rResult.node.content[posIndex(rfrom, 0) + 1] =
               copy(posNode(rfrom, 1),
                    fromArray(posNode(rfrom, 1).content \o px.content \o
                              posNode(rto, 1).content))
  IN rResult.called =>
       Merged(resolve(rDoc, rFrom), resolve(rDoc, rTo),
              schemaNode("paragraph", {}, <<schemaText(<<"x">>, <<>>)>>))

C24_MergedIntoOne ==
  /\ rResult.called /\ rResult.err = NoErr
  /\ rSlice.openStart = 1 /\ rSlice.openEnd = 1 /\ Len(rSlice.content) = 1
  /\ BetweenParagraphs(resolve(rDoc, rFrom), resolve(rDoc, rTo))
  /\ Len(rResult.node.content) = 1

\* ------------------------------------------------ properties: transform
\* Transform.before: the first of docs, or doc when there is none.
before(docs, doc) == IF Len(docs) > 0 THEN docs[1] ELSE doc

\* C25: after any sequence of step and maybeStep calls, failed ones among
\* them, steps, docs and mapping.maps have one length n, the starting
\* document stays docs[0] (doc when n = 0), and for every i < n applying
\* steps[i] to docs[i] succeeds with docs[i + 1] (the current doc for the
\* last) and mapping.maps[i] is the map of steps[i].
C25_StepsDocsMapsAgree ==
  /\ [](/\ Len(trSteps) = Len(trDocs)
        /\ Len(trSteps) = Len(trMapping.maps)
        /\ trMapping.from = 0 /\ trMapping.to = Len(trSteps)
        /\ \A i \in 1..Len(trSteps) :
             /\ apply(trSteps[i], trDocs[i]) =
                  ok(IF i < Len(trSteps) THEN trDocs[i + 1] ELSE trDoc)
             /\ trMapping.maps[i] = getMap(trSteps[i]))
  /\ [][before(trDocs', trDoc') = before(trDocs, trDoc)]_vars

C25_TwoStepsRecorded ==
  /\ Len(trSteps) = 2
  /\ trDocs[1] # trDocs[2] /\ trDocs[2] # trDoc
  /\ trResult.failed = NoTerm /\ trResult.err = NoErr

\* -------------------------------------------------- properties: mapping
\* C27: a ReplaceStep with the structure flag set that is mapped through
\* a mapping gives, when not null, a ReplaceStep with the flag still set.
C27_MappedKeepsStructure ==
  (/\ mpCall.op = "step"
   /\ mpCall.step.stepType = "replace" /\ mpCall.step.structure
   /\ ~mpCall.mapped.null)
    => (mpCall.mapped.step.stepType = "replace" /\ mpCall.mapped.step.structure)

\* pos sent through the maps from..to of maps in order, each by its own
\* StepMap.map, and then through x.
RECURSIVE ThroughEach(_, _, _, _, _)
ThroughEach(maps, from, to, pos, assoc) ==
  IF from >= to THEN pos
  ELSE ThroughEach(maps, from + 1, to, map(maps[from + 1], pos, assoc), assoc)

\* C28: for s = m.slice(from, to) with to below the number of m's maps,
\* after s.appendMap(x) the mapping s sends a position through m's maps
\* from..to in order and then through x, and through no map that m holds
\* at an index from to on.
C28_SliceThenAppend ==
  (/\ mpCall.op = "append"
   /\ mpCall.to < Len(mpMapping.maps)
   /\ mpMapping.mirror = <<>>)
    => mpCall.result =
         map(mpCall.x,
             ThroughEach(mpMapping.maps, mpCall.from, mpCall.to, mpCall.pos, mpCall.assoc),
             mpCall.assoc)

\* C29: when a mapping holds a map at index i and directly behind it the
\* map's inverse, registered as its mirror, a position sent through the
\* two comes back as it was, also from strictly inside a range that the
\* first map deletes.
C29_MirrorRecovers ==
  (/\ mpCall.op = "map"
   /\ mpCall.to = mpCall.from + 2
   /\ getMirror(mpMapping, mpCall.from) = mpCall.from + 1
   /\ mpMapping.maps[mpCall.from + 2] = invert(mpMapping.maps[mpCall.from + 1]))
    => mpCall.result = mpCall.pos

C29_RecoveredInsideDeletion ==
  /\ mpCall.op = "map" /\ mpCall.from = 0 /\ mpCall.to = 2
  /\ mpMapping.maps = <<StepMap(<<1, 2, 0>>), invert(StepMap(<<1, 2, 0>>))>>
  /\ mpMapping.mirror = <<1, 0>>
  /\ mpCall.pos = 2 /\ mpCall.result = 2

\* ------------------------------------------ properties: applyTransaction
\* How often the transaction at index t of trs was handed to plugin p.
TimesPassed(p, t) == Cardinality({k \in DOMAIN apPassed[p] : apPassed[p][k] = t})

\* C30: during applyTransaction no transaction is handed twice to the
\* appendTransaction of one plugin, none to the plugin that appended it,
\* and when the call returns every transaction of the list returned has
\* been handed exactly once to the appendTransaction of every other
\* plugin that has one.
C30_EachPassedOnce ==
  apPc # "idle" =>
    \A p \in DOMAIN apPlugins :
      /\ ~apPlugins[p] => apPassed[p] = <<>>
      /\ apPlugins[p] =>
           \A t \in DOMAIN apTrs :
             /\ TimesPassed(p, t) <= 1
             /\ apTrs[t].by = p - 1 => TimesPassed(p, t) = 0
             /\ (apPc = "returned" /\ apTrs[t].by # p - 1) => TimesPassed(p, t) = 1

C30_ReturnedAfterTwoRounds ==
  /\ apPc = "returned"
  /\ Len(apResult.transactions) = 3
  /\ apResult.transactions[2].by = 1 /\ apResult.transactions[3].by = 0
  /\ apPlugins = <<TRUE, TRUE>>

============================================================================
